---- MODULE Spec2Model ----
(***************************************************************************)
(* A model of the mandelbrot-explorer rendering core:                      *)
(*   - the WebGL fragment shader's per-pixel evaluation (perturbation      *)
(*     against a reference orbit with a direct-iteration fallback) and the *)
(*     CPU helpers testEscape / computeReferenceOrbit;                     *)
(*   - the view model of useWebGLMandelbrot (zoomAt, zoomAtInstant, pan,   *)
(*     reset, setCenter, navigateTo, animateTo, drag flag, URL hash);      *)
(*   - the worker-pool tile scheduler of useMandelbrot.                    *)
(* JavaScript numbers are modelled as exact rationals [n, d] in lowest     *)
(* terms with d > 0, so every identity checked here is one of exact        *)
(* arithmetic.                                                             *)
(***************************************************************************)
EXTENDS Integers, Sequences, FiniteSets, TLC

VARIABLES
    \* ---- shader / reference orbit (useWebGLMandelbrot.ts 419-703)
    pixCenter,      \* u_center: the view centre handed to the shader
    pixOffset,      \* pixelOffset = (v_uv - 0.5) * u_viewScale
    refPoint,       \* the reference point (refX, refY)
    pixMaxIter,     \* u_maxIterations
    pixSetType,     \* u_setType: 0 = Mandelbrot, 1 = Julia
    refOrbit,       \* ReferenceOrbit {data, escapeIter}, or the string "none"
    pixResult,      \* what main() ends with, or the string "none"
    pixStage,       \* "init" | "orbit" | "shaded"
    \* ---- worker-pool tile scheduler (useMandelbrot, unnamed/part_012)
    workerCount,    \* workersRef.current.length
    canvasWidth,    \* canvas.width
    canvasHeight,   \* canvas.height
    taskIdRef,      \* taskIdRef.current: the next task id
    pendingTasks,   \* pendingTasksRef.current: task id -> {received, total, imageData}
    isComputing,    \* the isComputing state
    inbox,          \* per worker: compute messages posted and not yet handled
    outbox,         \* per worker: result messages posted and not yet handled
    canvas,         \* the frame last put on the canvas (taskId -1: none yet)
    dispatched,     \* history: task id -> the bands render posted for it
    completions,    \* history: the tasks whose frame was put, in order
    \* ---- view model (useWebGLMandelbrot.ts 706-1160)
    currentView,    \* currentViewRef.current (and the viewState it mirrors)
    isAnimating,    \* isAnimatingRef.current
    isDragging,     \* isDraggingRef.current
    pendingFrame,   \* the animation frame callback scheduled, <<>> when none
    urlHash,        \* the x, y, z parameters of window.location.hash
    urlUpdateTimeout, \* the view of the debounced updateUrl, <<>> when none
    fractalSet,     \* the type of the active FractalSet
    lastRefPoint,   \* lastRefPointRef.current, <<>> for null
    refOrbitTex,    \* the orbit data held by the texture, <<>> when none
    mountFrame,     \* TRUE while the effect's initial render is queued
    opCount,        \* the number of operations called so far
    lastNav,        \* history: the target of navigateTo while no other
                    \* operation was called since, else <<>>
    roundTrip,      \* history: a zoom-in / zoom-out pair under way
    lastReset,      \* history: the set and the target of the last reset()
    \* ---- URL serialization (juliaSets, parseUrlState)
    urlStage,       \* "idle" | "set" | "params" | "parsed"
    urlSet,         \* the FractalSet to serialize, <<>> when none
    urlParams,      \* the parameters of the hash, each <<>> or <<text>>
    urlParsed,      \* <<[set, view]>> read back from urlParams, <<>> before
    \* ---- the worker on a single point (unnamed/part_008)
    wkInput,        \* the point c and the maxIterations handed to the worker
    wkOutput,       \* <<the count the worker reported>>, <<>> before
    \* ---- palette (colorThemes.ts, MandelbrotCanvas)
    palThemes,      \* the colorThemes array
    palTheme,       \* the id of the theme state
    colorOffset,    \* the colorOffset state
    \* ---- colouring (utils/colors, worker.onmessage, the shader main)
    colInput,       \* a result to colour: maxIterations, width, iterations
    colorLookup,    \* the Uint8Array of createColorLookup, <<>> before
    colImageData,      \* the RGBA bytes written for the result, <<>> before
    fragInput,      \* what the shader loops end with, and u_colorScale
    fragColor,      \* <<the vec4 written>>, <<>> before
    \* ---- video export (components/VideoRecorder)
    vidConfig,      \* config: totalFrames, and the display ticks one frame takes
    cancelledRef,   \* cancelledRef.current
    vidMounted,     \* the component is mounted
    recorderState,  \* mediaRecorder: "recording", "stopping" (stop() called,
                    \*   the stop event not yet delivered), "inactive"
    frameRequested, \* a requestAnimationFrame(renderFrame) is pending
    vidFrame,       \* frame
    vidElapsed,     \* display ticks since lastFrameTime
    framesRendered, \* calls of onRenderFrame
    vidStatus,      \* status
    downloads,      \* files downloaded by a.click()
    completeTimer,  \* setTimeout(onComplete, 1000) is pending
    completeCalls,  \* calls of onComplete
    onCancelCalled, \* onCancel was called
    \* ---- double-double arithmetic (utils/doubleDouble)
    ddA,            \* the double a
    ddB,            \* the double b
    ddSum,          \* <<toNumber(add(fromNumber(a), fromNumber(b)))>>, <<>> before
    \* ---- findBestReference on a single view
    fbrInput,       \* centerX, centerY, viewWidth, viewHeight, maxIterations
    fbrOutput,      \* <<the point returned>>, <<>> before
    \* ---- an animated transition in doubles (animateTo)
    animView,       \* currentViewRef.current, its fields doubles
    animIsAnimating, \* isAnimatingRef.current
    animPending,    \* the frame callback scheduled: <<[startView, target]>>
    \* ---- gestures (MandelbrotCanvas mouse and touch handlers)
    touchCount,     \* e.touches.length: the fingers on the screen
    isTouchDragging, \* isTouchDragging of the touch effect
    pinching,       \* touchStartDist is not 0
    tapArmed,       \* lastTapTime is not 0
    buttonDown,     \* the left mouse button is held
    dragStart,      \* dragStartRef.current is not null
    mouseDragging,  \* the isDragging state of the component
    dragFlag,       \* isDraggingRef.current of the hook
    hookCalls,      \* the operations of the hook the last event called
    \* ---- the selected set and the URL hash (MandelbrotCanvas)
    selSet,         \* the fractalSet state: <<>> or <<the FractalSet>>
    selHash,        \* the parameters of window.location.hash
    selPending,     \* <<>> or <<the view navigateTo is animating to>>
    \* ---- the reference of a view computed in doubles (render)
    frStage,        \* "idle", "mounted", "rendered" or "again"
    frView,         \* the view rendered: centerX, centerY and zoom as doubles
    frLastRef,      \* lastRefPointRef.current: <<>> or <<the reference>>
    frRecomputed    \* whether the last render computed a new reference

pixVars == <<pixCenter, pixOffset, refPoint, pixMaxIter, pixSetType,
             refOrbit, pixResult, pixStage>>

tileVars == <<workerCount, canvasWidth, canvasHeight, taskIdRef, pendingTasks,
              isComputing, inbox, outbox, canvas, dispatched, completions>>

viewVars == <<currentView, isAnimating, isDragging, pendingFrame, urlHash,
              urlUpdateTimeout, fractalSet, lastRefPoint, refOrbitTex, mountFrame,
              opCount, lastNav, roundTrip, lastReset>>

urlVars == <<urlStage, urlSet, urlParams, urlParsed>>

workVars == <<wkInput, wkOutput>>

palVars == <<palThemes, palTheme, colorOffset>>

colVars == <<colInput, colorLookup, colImageData, fragInput, fragColor>>

vidVars == <<vidConfig, cancelledRef, vidMounted, recorderState, frameRequested, vidFrame, vidElapsed, framesRendered, vidStatus, downloads, completeTimer, completeCalls, onCancelCalled>>

ddVars == <<ddA, ddB, ddSum>>

refVars == <<fbrInput, fbrOutput>>

animVars == <<animView, animIsAnimating, animPending>>

gestVars == <<touchCount, isTouchDragging, pinching, tapArmed, buttonDown, dragStart, mouseDragging, dragFlag, hookCalls>>

selVars == <<selSet, selHash, selPending>>

frVars == <<frStage, frView, frLastRef, frRecomputed>>

auxVars == <<urlVars, workVars, palVars, colVars, vidVars, ddVars, refVars, animVars, gestVars, selVars, frVars>>

vars == <<pixVars, tileVars, viewVars, auxVars>>

-----------------------------------------------------------------------------
(* Bounds of the model. *)

\* the largest u_maxIterations explored
MaxIter == 4

\* the largest worker pool explored
MaxWorkers == 2

\* the largest canvas height explored
MaxHeight == 3

\* the number of render tasks issued in one behaviour
MaxTasks == 2

\* the maxIterations option handed to the workers
TileMaxIter == 2

\* the number of view operations called in one behaviour
MaxOps == 2

\* the maxIterations option of the view model's reference search
ViewMaxIter == 2

-----------------------------------------------------------------------------
(* Exact rational arithmetic standing for JavaScript / GLSL numbers. *)

Abs(k) == IF k < 0 THEN -k ELSE k

RECURSIVE GCD(_, _)
GCD(a, b) == IF b = 0 THEN a ELSE GCD(b, a % b)

\* a rational in lowest terms with a positive denominator
Norm(n, d) ==
    LET g == GCD(Abs(n), Abs(d))
        s == IF d < 0 THEN -1 ELSE 1
    IN  [n |-> s * (n \div g), d |-> s * (d \div g)]

Rat(n, d) == Norm(n, d)

RInt(k) == [n |-> k, d |-> 1]

RNeg(a) == [n |-> -a.n, d |-> a.d]

RAdd(a, b) ==
    LET g == GCD(a.d, b.d)
    IN  Norm(a.n * (b.d \div g) + b.n * (a.d \div g), (a.d \div g) * b.d)

RSub(a, b) == RAdd(a, RNeg(b))

RMul(a, b) ==
    LET g1 == GCD(Abs(a.n), b.d)
        g2 == GCD(Abs(b.n), a.d)
    IN  IF a.n = 0 \/ b.n = 0 THEN RInt(0)
        ELSE [n |-> (a.n \div g1) * (b.n \div g2),
              d |-> (a.d \div g2) * (b.d \div g1)]

\* a / b for b # 0
RDiv(a, b) == RMul(a, Norm(b.d, b.n))

RLess(a, b) == a.n * b.d < b.n * a.d

RLeq(a, b) == a.n * b.d <= b.n * a.d

\* a > k for an integer k, without forming k * a.d
RGtInt(a, k) ==
    LET q == a.n \div a.d
    IN  q > k \/ (q = k /\ a.n % a.d # 0)

\* complex numbers are records [re, im] of rationals
Cx(re, im) == [re |-> re, im |-> im]

CZero == Cx(RInt(0), RInt(0))

CAdd(a, b) == Cx(RAdd(a.re, b.re), RAdd(a.im, b.im))

CSub(a, b) == Cx(RSub(a.re, b.re), RSub(a.im, b.im))

\* zr*zr + zi*zi
Mag2(z) == RAdd(RMul(z.re, z.re), RMul(z.im, z.im))

-----------------------------------------------------------------------------
(* CPU helpers of useWebGLMandelbrot.ts *)

\* the bailout test |z|^2 > 4.0
BailoutSq == 4

\* one step z <- z^2 + c: (zr2 - zi2 + x, 2*zr*zi + y)
MandelStep(z, c) ==
    Cx(RAdd(RSub(RMul(z.re, z.re), RMul(z.im, z.im)), c.re),
       RAdd(RMul(RInt(2), RMul(z.re, z.im)), c.im))

\* testEscape's loop from index i with the current z
RECURSIVE testEscapeLoop(_, _, _, _)
testEscapeLoop(i, z, c, maxIterations) ==
    IF i >= maxIterations THEN maxIterations
    ELSE IF RGtInt(Mag2(z), BailoutSq) THEN i
    ELSE testEscapeLoop(i + 1, MandelStep(z, c), c, maxIterations)

testEscape(c, maxIterations) == testEscapeLoop(0, CZero, c, maxIterations)

\* a loop that leaves the slots after the escape at zero
RECURSIVE computeOrbitLoopNoFill(_, _, _, _, _)
computeOrbitLoopNoFill(i, z, data, ref, maxIterations) ==
    IF i >= maxIterations
    THEN [data |-> data, escapeIter |-> maxIterations]
    ELSE IF RGtInt(Mag2(z), BailoutSq)
         THEN [data |-> Append(data, z) \o [j \in 1..(maxIterations - i - 1) |-> CZero],
               escapeIter |-> i]
         ELSE computeOrbitLoopNoFill(i + 1, MandelStep(z, ref), Append(data, z),
                                     ref, maxIterations)

\* computeReferenceOrbit's loop: data holds the samples written so far
RECURSIVE computeOrbitLoop(_, _, _, _, _)
computeOrbitLoop(i, z, data, ref, maxIterations) ==
    IF i >= maxIterations
    THEN [data |-> data, escapeIter |-> maxIterations]
    ELSE IF RGtInt(Mag2(z), BailoutSq)
         THEN [data |-> data \o [j \in 1..(maxIterations - i) |-> z],
               escapeIter |-> i]
         ELSE computeOrbitLoop(i + 1, MandelStep(z, ref), Append(data, z),
                               ref, maxIterations)

computeReferenceOrbit(ref, maxIterations) ==
    computeOrbitLoop(0, CZero, <<>>, ref, maxIterations)

-----------------------------------------------------------------------------
(* The fragment shader's main() *)

\* the hard cap of the shader's for loops
ShaderLoopCap == 10000

\* the glitch threshold on |dz|^2
GlitchThreshold == 1000000

\* getRefZ(n): texel n of the orbit texture
getRefZ(orbitData, n) == orbitData[n + 1]

\* dz_new = 2*Z*dz + dz^2 + dc
DeltaStepNoSquare(Zn, dz, dc) ==
    LET twoZdz == Cx(RMul(RInt(2), RSub(RMul(Zn.re, dz.re), RMul(Zn.im, dz.im))),
                     RMul(RInt(2), RAdd(RMul(Zn.re, dz.im), RMul(Zn.im, dz.re))))
    IN  CAdd(twoZdz, dc)

DeltaStep(Zn, dz, dc) ==
    LET twoZdz == Cx(RMul(RInt(2), RSub(RMul(Zn.re, dz.re), RMul(Zn.im, dz.im))),
                     RMul(RInt(2), RAdd(RMul(Zn.re, dz.im), RMul(Zn.im, dz.re))))
        dz2    == Cx(RSub(RMul(dz.re, dz.re), RMul(dz.im, dz.im)),
                     RMul(RInt(2), RMul(dz.re, dz.im)))
    IN  CAdd(CAdd(twoZdz, dz2), dc)

\* Phase 1: perturbation while the reference orbit lasts.  The state of the
\* loop is (i, dz, z, iteration); the result is what the loop leaves behind.
RECURSIVE Phase1(_, _, _, _, _, _, _, _)
Phase1(i, dz, z, iteration, dc, orbitData, refOrbitLen, maxIterations) ==
    IF i >= ShaderLoopCap
    THEN [z |-> z, iteration |-> iteration, escaped |-> FALSE,
          useDirectCompute |-> FALSE]
    ELSE IF i >= refOrbitLen \/ i >= maxIterations
    THEN [z |-> z, iteration |-> iteration, escaped |-> FALSE,
          useDirectCompute |-> (i < maxIterations)]
    ELSE LET Zn == getRefZ(orbitData, i)
             zNow == CAdd(Zn, dz)
         IN  IF RGtInt(Mag2(zNow), BailoutSq)
             THEN [z |-> zNow, iteration |-> iteration, escaped |-> TRUE,
                   useDirectCompute |-> FALSE]
             ELSE IF RGtInt(Mag2(dz), GlitchThreshold)
             THEN [z |-> zNow, iteration |-> iteration, escaped |-> FALSE,
                   useDirectCompute |-> TRUE]
             ELSE Phase1(i + 1, DeltaStep(Zn, dz, dc), zNow, i + 1, dc,
                         orbitData, refOrbitLen, maxIterations)

\* The direct loop (the Julia branch from i = 0, and phase 2 from
\* i = iteration): test |z|^2 > 4, then z <- z^2 + c, iteration = i + 1.
RECURSIVE DirectLoop(_, _, _, _, _)
DirectLoop(i, z, iteration, c, maxIterations) ==
    IF i >= ShaderLoopCap \/ i >= maxIterations
    THEN [z |-> z, iteration |-> iteration, escaped |-> FALSE]
    ELSE IF RGtInt(Mag2(z), BailoutSq)
    THEN [z |-> z, iteration |-> iteration, escaped |-> TRUE]
    ELSE DirectLoop(i + 1, MandelStep(z, c), i + 1, c, maxIterations)

\* the Julia constant handed to the shader (the "Dendrite" preset c = i)
JuliaC == Cx(RInt(0), RInt(1))

\* main(): the pixel's (z, iteration, escaped)
ShaderMain(center, pixelOffset, refOffset, orbitData, refOrbitLen, maxIterations, setType) ==
    LET pixelCoord == CAdd(center, pixelOffset)
    IN  IF setType = 1
        THEN DirectLoop(0, pixelCoord, 0, JuliaC, maxIterations)
        ELSE LET dc == CSub(pixelOffset, refOffset)
                 p1 == Phase1(0, CZero, CZero, 0, dc, orbitData, refOrbitLen,
                              maxIterations)
             IN  IF p1.useDirectCompute /\ ~p1.escaped
                 THEN DirectLoop(p1.iteration, p1.z, p1.iteration, pixelCoord,
                                 maxIterations)
                 ELSE [z |-> p1.z, iteration |-> p1.iteration,
                       escaped |-> p1.escaped]

-----------------------------------------------------------------------------
(* The parts of the program a specification does not exercise stay in their *)
(* state after construction.                                                *)

\* the canvas before any putImageData
BlankCanvas == [taskId |-> -1, width |-> 0, height |-> 0, data |-> <<>>]

\* useMandelbrot before its first render, with a single worker
TileIdle ==
    /\ workerCount = 1
    /\ canvasWidth = 0
    /\ canvasHeight = 0
    /\ taskIdRef = 0
    /\ pendingTasks = <<>>
    /\ isComputing = FALSE
    /\ inbox = [i \in {0} |-> <<>>]
    /\ outbox = [i \in {0} |-> <<>>]
    /\ canvas = BlankCanvas
    /\ dispatched = <<>>
    /\ completions = <<>>

\* the view model at the default view, before any operation
ViewIdle ==
    /\ currentView = [centerX |-> Rat(-1, 2), centerY |-> RInt(0), zoom |-> RInt(1)]
    /\ isAnimating = FALSE
    /\ isDragging = FALSE
    /\ pendingFrame = <<>>
    /\ urlHash = [x |-> <<>>, y |-> <<>>, z |-> <<>>]
    /\ urlUpdateTimeout = <<>>
    /\ fractalSet = "mandelbrot"
    /\ lastRefPoint = <<>>
    /\ refOrbitTex = <<>>
    /\ mountFrame = TRUE
    /\ opCount = 0
    /\ lastNav = <<>>
    /\ roundTrip = <<>>
    /\ lastReset = <<>>

\* the shader inputs of a view that was never drawn
PixIdle ==
    /\ pixCenter = Cx(Rat(-1, 2), RInt(0))
    /\ pixOffset = CZero
    /\ refPoint = CZero
    /\ pixMaxIter = 1
    /\ pixSetType = 0
    /\ refOrbit = "none"
    /\ pixResult = "none"
    /\ pixStage = "idle"

\* a hash without parameters: params.get(key) is null for every key
NoParams ==
    [set |-> <<>>, j |-> <<>>, p |-> <<>>, jr |-> <<>>, ji |-> <<>>, pow |-> <<>>,
     x |-> <<>>, y |-> <<>>, z |-> <<>>]

\* no FractalSet is being written to or read from the hash
UrlIdle ==
    /\ urlStage = "idle"
    /\ urlSet = <<>>
    /\ urlParams = NoParams
    /\ urlParsed = <<>>

\* the worker was handed no point
WorkIdle ==
    /\ wkInput = [c |-> CZero, maxIterations |-> 1]
    /\ wkOutput = <<>>

\* colorThemes: the id and the eight RGB colours of every theme
ColorThemes ==
   <<[id |-> "cyberpunk",
      colors |->
        <<<<Rat(1000, 1000), Rat(0, 1000), Rat(1000, 1000)>>,
          <<Rat(0, 1000), Rat(1000, 1000), Rat(1000, 1000)>>,
          <<Rat(616, 1000), Rat(0, 1000), Rat(1000, 1000)>>,
          <<Rat(0, 1000), Rat(400, 1000), Rat(1000, 1000)>>,
          <<Rat(1000, 1000), Rat(0, 1000), Rat(500, 1000)>>,
          <<Rat(0, 1000), Rat(784, 1000), Rat(1000, 1000)>>,
          <<Rat(784, 1000), Rat(0, 1000), Rat(1000, 1000)>>,
          <<Rat(0, 1000), Rat(588, 1000), Rat(1000, 1000)>>>>],
     [id |-> "frost",
      colors |->
        <<<<Rat(850, 1000), Rat(900, 1000), Rat(950, 1000)>>,
          <<Rat(600, 1000), Rat(750, 1000), Rat(850, 1000)>>,
          <<Rat(400, 1000), Rat(550, 1000), Rat(700, 1000)>>,
          <<Rat(250, 1000), Rat(400, 1000), Rat(550, 1000)>>,
          <<Rat(150, 1000), Rat(250, 1000), Rat(400, 1000)>>,
          <<Rat(300, 1000), Rat(500, 1000), Rat(650, 1000)>>,
          <<Rat(500, 1000), Rat(650, 1000), Rat(800, 1000)>>,
          <<Rat(700, 1000), Rat(800, 1000), Rat(900, 1000)>>>>],
     [id |-> "fire",
      colors |->
        <<<<Rat(1000, 1000), Rat(1000, 1000), Rat(900, 1000)>>,
          <<Rat(1000, 1000), Rat(950, 1000), Rat(400, 1000)>>,
          <<Rat(1000, 1000), Rat(700, 1000), Rat(0, 1000)>>,
          <<Rat(1000, 1000), Rat(400, 1000), Rat(0, 1000)>>,
          <<Rat(900, 1000), Rat(150, 1000), Rat(0, 1000)>>,
          <<Rat(600, 1000), Rat(0, 1000), Rat(0, 1000)>>,
          <<Rat(300, 1000), Rat(0, 1000), Rat(0, 1000)>>,
          <<Rat(100, 1000), Rat(0, 1000), Rat(0, 1000)>>>>],
     [id |-> "ocean",
      colors |->
        <<<<Rat(900, 1000), Rat(980, 1000), Rat(1000, 1000)>>,
          <<Rat(400, 1000), Rat(850, 1000), Rat(900, 1000)>>,
          <<Rat(0, 1000), Rat(700, 1000), Rat(800, 1000)>>,
          <<Rat(0, 1000), Rat(500, 1000), Rat(700, 1000)>>,
          <<Rat(0, 1000), Rat(350, 1000), Rat(600, 1000)>>,
          <<Rat(0, 1000), Rat(200, 1000), Rat(400, 1000)>>,
          <<Rat(100, 1000), Rat(500, 1000), Rat(500, 1000)>>,
          <<Rat(300, 1000), Rat(750, 1000), Rat(700, 1000)>>>>],
     [id |-> "classic",
      colors |->
        <<<<Rat(0, 1000), Rat(0, 1000), Rat(500, 1000)>>,
          <<Rat(0, 1000), Rat(0, 1000), Rat(1000, 1000)>>,
          <<Rat(0, 1000), Rat(500, 1000), Rat(1000, 1000)>>,
          <<Rat(0, 1000), Rat(1000, 1000), Rat(1000, 1000)>>,
          <<Rat(0, 1000), Rat(1000, 1000), Rat(500, 1000)>>,
          <<Rat(0, 1000), Rat(1000, 1000), Rat(0, 1000)>>,
          <<Rat(500, 1000), Rat(1000, 1000), Rat(0, 1000)>>,
          <<Rat(1000, 1000), Rat(1000, 1000), Rat(0, 1000)>>>>],
     [id |-> "synthwave",
      colors |->
        <<<<Rat(100, 1000), Rat(0, 1000), Rat(200, 1000)>>,
          <<Rat(400, 1000), Rat(0, 1000), Rat(600, 1000)>>,
          <<Rat(800, 1000), Rat(0, 1000), Rat(500, 1000)>>,
          <<Rat(1000, 1000), Rat(200, 1000), Rat(400, 1000)>>,
          <<Rat(1000, 1000), Rat(500, 1000), Rat(200, 1000)>>,
          <<Rat(1000, 1000), Rat(800, 1000), Rat(300, 1000)>>,
          <<Rat(600, 1000), Rat(200, 1000), Rat(800, 1000)>>,
          <<Rat(200, 1000), Rat(0, 1000), Rat(400, 1000)>>>>],
     [id |-> "aurora",
      colors |->
        <<<<Rat(0, 1000), Rat(100, 1000), Rat(150, 1000)>>,
          <<Rat(0, 1000), Rat(500, 1000), Rat(300, 1000)>>,
          <<Rat(100, 1000), Rat(900, 1000), Rat(500, 1000)>>,
          <<Rat(300, 1000), Rat(1000, 1000), Rat(700, 1000)>>,
          <<Rat(500, 1000), Rat(800, 1000), Rat(1000, 1000)>>,
          <<Rat(600, 1000), Rat(400, 1000), Rat(900, 1000)>>,
          <<Rat(400, 1000), Rat(200, 1000), Rat(600, 1000)>>,
          <<Rat(100, 1000), Rat(300, 1000), Rat(400, 1000)>>>>],
     [id |-> "toxic",
      colors |->
        <<<<Rat(0, 1000), Rat(50, 1000), Rat(0, 1000)>>,
          <<Rat(100, 1000), Rat(300, 1000), Rat(0, 1000)>>,
          <<Rat(300, 1000), Rat(600, 1000), Rat(0, 1000)>>,
          <<Rat(600, 1000), Rat(1000, 1000), Rat(0, 1000)>>,
          <<Rat(900, 1000), Rat(1000, 1000), Rat(200, 1000)>>,
          <<Rat(1000, 1000), Rat(900, 1000), Rat(0, 1000)>>,
          <<Rat(700, 1000), Rat(500, 1000), Rat(0, 1000)>>,
          <<Rat(200, 1000), Rat(400, 1000), Rat(0, 1000)>>>>],
     [id |-> "sakura",
      colors |->
        <<<<Rat(1000, 1000), Rat(980, 1000), Rat(980, 1000)>>,
          <<Rat(1000, 1000), Rat(900, 1000), Rat(920, 1000)>>,
          <<Rat(1000, 1000), Rat(750, 1000), Rat(800, 1000)>>,
          <<Rat(950, 1000), Rat(550, 1000), Rat(650, 1000)>>,
          <<Rat(850, 1000), Rat(400, 1000), Rat(550, 1000)>>,
          <<Rat(700, 1000), Rat(300, 1000), Rat(450, 1000)>>,
          <<Rat(900, 1000), Rat(700, 1000), Rat(750, 1000)>>,
          <<Rat(1000, 1000), Rat(850, 1000), Rat(880, 1000)>>>>],
     [id |-> "noir",
      colors |->
        <<<<Rat(1000, 1000), Rat(1000, 1000), Rat(1000, 1000)>>,
          <<Rat(850, 1000), Rat(850, 1000), Rat(850, 1000)>>,
          <<Rat(650, 1000), Rat(650, 1000), Rat(650, 1000)>>,
          <<Rat(450, 1000), Rat(450, 1000), Rat(450, 1000)>>,
          <<Rat(300, 1000), Rat(300, 1000), Rat(300, 1000)>>,
          <<Rat(150, 1000), Rat(150, 1000), Rat(150, 1000)>>,
          <<Rat(500, 1000), Rat(500, 1000), Rat(500, 1000)>>,
          <<Rat(750, 1000), Rat(750, 1000), Rat(750, 1000)>>>>]>>

\* the palette state on load: the default theme, not rotated
PalIdle ==
    /\ palThemes = ColorThemes
    /\ palTheme = "cyberpunk"
    /\ colorOffset = 0

\* nothing was coloured
ColIdle ==
    /\ colInput = [maxIterations |-> 1, width |-> 1, iterations |-> <<1>>]
    /\ colorLookup = <<>>
    /\ colImageData = <<>>
    /\ fragInput = [escaped |-> FALSE, iteration |-> 1, maxIterations |-> 1,
                    colorScale |-> 0]
    /\ fragColor = <<>>

\* no export is open
VidIdle ==
    /\ vidConfig = [totalFrames |-> 1, frameTicks |-> 1]
    /\ cancelledRef = FALSE
    /\ vidMounted = FALSE
    /\ recorderState = "inactive"
    /\ frameRequested = FALSE
    /\ vidFrame = 0
    /\ vidElapsed = 0
    /\ framesRendered = 0
    /\ vidStatus = "preparing"
    /\ downloads = 0
    /\ completeTimer = FALSE
    /\ completeCalls = 0
    /\ onCancelCalled = FALSE

\* nothing was added
DdIdle ==
    /\ ddA = [kind |-> "fin", v |-> 0]
    /\ ddB = [kind |-> "fin", v |-> 0]
    /\ ddSum = <<>>

\* no reference was searched
RefIdle ==
    /\ fbrInput = [centerX |-> RInt(0), centerY |-> RInt(0), viewWidth |-> RInt(20),
                   viewHeight |-> RInt(20), maxIterations |-> 1]
    /\ fbrOutput = <<>>

\* no transition was started
AnimIdle ==
    /\ animView = [centerX |-> [kind |-> "fin", v |-> 0],
                   centerY |-> [kind |-> "fin", v |-> 0],
                   zoom |-> [kind |-> "fin", v |-> 0]]
    /\ animIsAnimating = FALSE
    /\ animPending = <<>>

\* no gesture is under way
GestIdle ==
    /\ touchCount = 0
    /\ isTouchDragging = FALSE
    /\ pinching = FALSE
    /\ tapArmed = FALSE
    /\ buttonDown = FALSE
    /\ dragStart = FALSE
    /\ mouseDragging = FALSE
    /\ dragFlag = FALSE
    /\ hookCalls = <<>>

\* no set selection is modelled
SelIdle ==
    /\ selSet = <<>>
    /\ selHash = <<>>
    /\ selPending = <<>>

\* no reference is computed in doubles
FrIdle ==
    /\ frStage = "idle"
    /\ frView = <<>>
    /\ frLastRef = <<>>
    /\ frRecomputed = FALSE

AuxIdle == UrlIdle /\ WorkIdle /\ PalIdle /\ ColIdle /\ VidIdle /\ DdIdle /\ RefIdle /\ AnimIdle /\ GestIdle /\ SelIdle /\ FrIdle

-----------------------------------------------------------------------------
(* Specification of one pixel: inputs are drawn in Init, then the reference *)
(* orbit is computed and the pixel shaded.                                  *)

\* coordinates k/2 for k in lo..hi
Halves(lo, hi) == {Rat(k, 2) : k \in lo..hi}

PixCenters == {Cx(Rat(-1, 2), RInt(0)), Cx(RInt(0), RInt(0))}

\* (v_uv - 0.5) * viewScale for v_uv on a 5 x 5 grid, viewScale = (4, 2)
PixOffsets == {Cx(RInt(x), Rat(y, 2)) : x \in -2..2, y \in -2..2}

RefPoints == {Cx(x, y) : x \in Halves(-4, 2), y \in Halves(-2, 2)}

PixInit ==
    /\ pixCenter \in PixCenters
    /\ pixOffset \in PixOffsets
    /\ refPoint \in RefPoints
    /\ pixMaxIter \in 1..MaxIter
    /\ pixSetType \in {0, 1}
    \* the Julia branch starts from z = pixel, one squaring ahead of the
    \* Mandelbrot branch: its budget is kept one lower to stay within the
    \* integer range of TLC     
    /\ pixSetType = 1 => pixMaxIter < MaxIter
    /\ refOrbit = "none"
    /\ pixResult = "none"
    /\ pixStage = "init"
    /\ TileIdle
    /\ ViewIdle
    /\ AuxIdle

\* render's reference step: orbit = computeReferenceOrbit(refX, refY, maxIterations)
ComputeOrbit ==
    /\ pixStage = "init"
    /\ refOrbit' = computeReferenceOrbit(refPoint, pixMaxIter)
    /\ pixStage' = "orbit"
    /\ UNCHANGED <<pixCenter, pixOffset, refPoint, pixMaxIter, pixSetType, pixResult>>
    /\ UNCHANGED <<tileVars, viewVars, auxVars>>

\* gl.drawArrays: the shader runs with refOffset = ref - center and
\* u_refOrbitLen = orbit.escapeIter
DrawPixel ==
    /\ pixStage = "orbit"
    /\ pixResult' = ShaderMain(pixCenter, pixOffset, CSub(refPoint, pixCenter),
                               refOrbit.data, refOrbit.escapeIter, pixMaxIter,
                               pixSetType)
    /\ pixStage' = "shaded"
    /\ UNCHANGED <<pixCenter, pixOffset, refPoint, pixMaxIter, pixSetType, refOrbit>>
    /\ UNCHANGED <<tileVars, viewVars, auxVars>>

PixNext == ComputeOrbit \/ DrawPixel

SpecPixel == PixInit /\ [][PixNext]_vars

\* the pixel's true coordinate
PixelCoord == CAdd(pixCenter, pixOffset)

-----------------------------------------------------------------------------
(* The Mandelbrot worker (unnamed/part_008, self.onmessage) *)

\* the worker's loop with a period check that compares the real parts only
RECURSIVE WorkerLoopRealPeriod(_, _, _, _, _, _, _, _, _, _, _)
WorkerLoopRealPeriod(x, y, x2, y2, iter, xOld, yOld, period, x0, y0, maxIterations) ==
    IF ~(RLeq(RAdd(x2, y2), RInt(4)) /\ iter < maxIterations) THEN iter
    ELSE LET ny == RAdd(RMul(RInt(2), RMul(x, y)), y0)
             nx == RAdd(RSub(x2, y2), x0)
         IN  IF nx = xOld THEN maxIterations
             ELSE IF period + 1 > 20
             THEN WorkerLoopRealPeriod(nx, ny, RMul(nx, nx), RMul(ny, ny), iter + 1,
                                       nx, ny, 0, x0, y0, maxIterations)
             ELSE WorkerLoopRealPeriod(nx, ny, RMul(nx, nx), RMul(ny, ny), iter + 1,
                                       xOld, yOld, period + 1, x0, y0, maxIterations)

\* the worker's escape-time loop with its period check; the loop state is
\* (x, y, x2, y2, iter, xOld, yOld, period)
RECURSIVE WorkerLoop(_, _, _, _, _, _, _, _, _, _, _)
WorkerLoop(x, y, x2, y2, iter, xOld, yOld, period, x0, y0, maxIterations) ==
    IF ~(RLeq(RAdd(x2, y2), RInt(4)) /\ iter < maxIterations) THEN iter
    ELSE LET ny == RAdd(RMul(RInt(2), RMul(x, y)), y0)
             nx == RAdd(RSub(x2, y2), x0)
         IN  IF nx = xOld /\ ny = yOld THEN maxIterations
             ELSE IF period + 1 > 20
             THEN WorkerLoop(nx, ny, RMul(nx, nx), RMul(ny, ny), iter + 1,
                             nx, ny, 0, x0, y0, maxIterations)
             ELSE WorkerLoop(nx, ny, RMul(nx, nx), RMul(ny, ny), iter + 1,
                             xOld, yOld, period + 1, x0, y0, maxIterations)

\* the iteration count the worker stores for pixel (px, py) of message m
WorkerPixel(px, py, m) ==
    LET aspectRatio == Rat(m.width, m.height)
        viewWidth   == RDiv(RInt(4), m.zoom)
        viewHeight  == RDiv(viewWidth, aspectRatio)
        minX == RSub(m.centerX, RDiv(viewWidth, RInt(2)))
        minY == RSub(m.centerY, RDiv(viewHeight, RInt(2)))
        dx   == RDiv(viewWidth, RInt(m.width))
        dy   == RDiv(viewHeight, RInt(m.height))
        y0   == RAdd(minY, RMul(RInt(py), dy))
        x0   == RAdd(minX, RMul(RInt(px), dx))
        xq   == RSub(x0, Rat(1, 4))
        q    == RAdd(RMul(xq, xq), RMul(y0, y0))
        x1   == RAdd(x0, RInt(1))
    IN  IF RLeq(RMul(q, RAdd(q, xq)), RMul(Rat(1, 4), RMul(y0, y0)))
        THEN m.maxIterations
        ELSE IF RLeq(RAdd(RMul(x1, x1), RMul(y0, y0)), Rat(1, 16))
        THEN m.maxIterations
        ELSE WorkerLoop(RInt(0), RInt(0), RInt(0), RInt(0), 0, RInt(0), RInt(0),
                        0, x0, y0, m.maxIterations)

\* the Int32Array of width * rows counts, filled row by row
WorkerIterations(m) ==
    LET rows == m.endRow - m.startRow
    IN  [k \in 1..(m.width * rows) |->
            WorkerPixel((k - 1) % m.width, m.startRow + ((k - 1) \div m.width), m)]

\* the ResultMessage the worker posts for compute message m
WorkerResult(m) ==
    [type |-> "result", iterations |-> WorkerIterations(m),
     startRow |-> m.startRow, endRow |-> m.endRow, taskId |-> m.taskId]

-----------------------------------------------------------------------------
(* The tile scheduler of useMandelbrot (unnamed/part_012) *)

\* the widths the canvas takes
CanvasWidths == {1, 2}

\* the view the hook renders: {centerX: -0.5, centerY: 0, zoom: 1}
TileView == [centerX |-> Rat(-1, 2), centerY |-> RInt(0), zoom |-> RInt(1)]

Min(a, b) == IF a < b THEN a ELSE b

FloorDiv(a, b) == a \div b

\* Math.ceil(a / b) for a >= 0, b > 0
CeilDiv(a, b) == (a + b - 1) \div b

TaskTotalOne(workers) == 1

\* total: workers.length
TaskTotal(workers) == workers

IsLatestTaskAlways(taskId, nextId) == TRUE

\* taskId === taskIdRef.current - 1
IsLatestTask(taskId, nextId) == taskId = nextId - 1

\* the band of worker i: [i * chunksPerWorker, min((i + 1) * chunksPerWorker, height))
Band(i, chunksPerWorker, height) ==
    [worker |-> i, startRow |-> i * chunksPerWorker,
     endRow |-> Min((i + 1) * chunksPerWorker, height)]

\* the compute message of band b
ComputeMessage(b, width, height, taskId) ==
    [type |-> "compute", width |-> width, height |-> height,
     centerX |-> TileView.centerX, centerY |-> TileView.centerY,
     zoom |-> TileView.zoom, maxIterations |-> TileMaxIter,
     startRow |-> b.startRow, endRow |-> b.endRow, taskId |-> taskId]

\* ctx.createImageData(width, height): every pixel unpainted (-1)
createImageData(width, height) == [k \in 0..(width * height - 1) |-> -1]

\* f with key k bound to v
MapPut(f, k, v) == [x \in DOMAIN f \cup {k} |-> IF x = k THEN v ELSE f[x]]

\* f without key k
MapDelete(f, k) == [x \in DOMAIN f \ {k} |-> f[x]]

\* render(view) on a canvas of the given size
RenderBody(width, height) ==
    IF width = 0 \/ height = 0
    THEN UNCHANGED <<taskIdRef, pendingTasks, isComputing, inbox, dispatched>>
    ELSE LET taskId == taskIdRef
             chunksPerWorker == CeilDiv(height, workerCount)
             bands == {Band(i, chunksPerWorker, height) : i \in 0..(workerCount - 1)}
             posted == {b \in bands : b.startRow < height}
         IN  /\ isComputing' = TRUE
             /\ taskIdRef' = taskIdRef + 1
             /\ pendingTasks' = MapPut(pendingTasks, taskId,
                    [received |-> 0, total |-> TaskTotal(workerCount),
                     width |-> width, height |-> height,
                     imageData |-> createImageData(width, height)])
             /\ inbox' = [i \in DOMAIN inbox |->
                    LET b == Band(i, chunksPerWorker, height)
                    IN  IF b.startRow < height
                        THEN Append(inbox[i], ComputeMessage(b, width, height, taskId))
                        ELSE inbox[i]]
             /\ dispatched' = MapPut(dispatched, taskId,
                    [width |-> width, height |-> height, bands |-> posted])

\* render(currentViewRef.current): a redraw on the canvas as it is
Render ==
    /\ taskIdRef < MaxTasks
    /\ RenderBody(canvasWidth, canvasHeight)
    /\ UNCHANGED <<workerCount, canvasWidth, canvasHeight, outbox, canvas, completions>>
    /\ UNCHANGED <<pixVars, viewVars, auxVars>>

\* handleResize: the canvas takes the size of its box (a box of height h and
\* of the width it had), then render
HandleResize(h) ==
    /\ taskIdRef < MaxTasks
    /\ canvasWidth' = canvasWidth
    /\ canvasHeight' = h
    /\ RenderBody(canvasWidth, h)
    /\ UNCHANGED <<workerCount, outbox, canvas, completions>>
    /\ UNCHANGED <<pixVars, viewVars, auxVars>>

\* worker i handles its oldest compute message and posts the result
WorkerCompute(i) ==
    /\ inbox[i] # <<>>
    /\ inbox' = [inbox EXCEPT ![i] = Tail(@)]
    /\ outbox' = [outbox EXCEPT ![i] = Append(@, WorkerResult(Head(inbox[i])))]
    /\ UNCHANGED <<workerCount, canvasWidth, canvasHeight, taskIdRef, pendingTasks,
                   isComputing, canvas, dispatched, completions>>
    /\ UNCHANGED <<pixVars, viewVars, auxVars>>

\* the rows of result e coloured into the task's image: pixel (row, col) takes
\* the colour colorLookup[iter], recorded here by its index iter
Colorize(imageData, width, e) ==
    [k \in DOMAIN imageData |->
        LET row == k \div width
            col == k % width
        IN  IF row >= e.startRow /\ row < e.endRow
            THEN e.iterations[(row - e.startRow) * width + col + 1]
            ELSE imageData[k]]

\* worker.onmessage on the main thread, for the oldest result of worker i
OnMessage(i) ==
    /\ outbox[i] # <<>>
    /\ outbox' = [outbox EXCEPT ![i] = Tail(@)]
    /\ LET e == Head(outbox[i])
       IN  IF e.taskId \notin DOMAIN pendingTasks
           THEN UNCHANGED <<pendingTasks, canvas, isComputing, completions>>
           ELSE LET task == pendingTasks[e.taskId]
                    data == Colorize(task.imageData, task.width, e)
                    received == task.received + 1
                IN  IF received = task.total
                    THEN /\ canvas' = [taskId |-> e.taskId, width |-> task.width,
                                       height |-> task.height, data |-> data]
                         /\ pendingTasks' = MapDelete(pendingTasks, e.taskId)
                         /\ isComputing' = IF IsLatestTask(e.taskId, taskIdRef)
                                           THEN FALSE ELSE isComputing
                         /\ completions' = Append(completions,
                                [task |-> e.taskId, latest |-> taskIdRef - 1,
                                 cleared |-> IsLatestTask(e.taskId, taskIdRef)])
                    ELSE /\ pendingTasks' = [pendingTasks EXCEPT
                                ![e.taskId].imageData = data,
                                ![e.taskId].received = received]
                         /\ UNCHANGED <<canvas, isComputing, completions>>
    /\ UNCHANGED <<workerCount, canvasWidth, canvasHeight, taskIdRef, inbox, dispatched>>
    /\ UNCHANGED <<pixVars, viewVars, auxVars>>

\* the hook after its workers were created, before the first render
TileInit ==
    /\ workerCount \in 1..MaxWorkers
    /\ canvasWidth \in CanvasWidths
    /\ canvasHeight \in 0..MaxHeight
    /\ taskIdRef = 0
    /\ pendingTasks = <<>>
    /\ isComputing = FALSE
    /\ inbox = [i \in 0..(workerCount - 1) |-> <<>>]
    /\ outbox = [i \in 0..(workerCount - 1) |-> <<>>]
    /\ canvas = BlankCanvas
    /\ dispatched = <<>>
    /\ completions = <<>>
    /\ PixIdle
    /\ ViewIdle
    /\ AuxIdle

TileNext ==
    \/ Render
    \/ \E h \in 0..MaxHeight : HandleResize(h)
    \/ \E i \in DOMAIN inbox : WorkerCompute(i)
    \/ \E i \in DOMAIN outbox : OnMessage(i)

SpecTiles == TileInit /\ [][TileNext]_vars

\* the compute and result messages of task t still under way
InFlight(t) ==
    UNION {{<<"compute", i, k>> :
                k \in {j \in DOMAIN inbox[i] : inbox[i][j].taskId = t}} :
            i \in DOMAIN inbox}
    \cup
    UNION {{<<"result", i, k>> :
                k \in {j \in DOMAIN outbox[i] : outbox[i][j].taskId = t}} :
            i \in DOMAIN outbox}

-----------------------------------------------------------------------------
(* The view model of useWebGLMandelbrot (src/hooks/useWebGLMandelbrot.ts)   *)

RAbs(a) == [n |-> Abs(a.n), d |-> a.d]

\* Math.pow(b, k) for a natural exponent k
RECURSIVE RPowNat(_, _)
RPowNat(b, k) == IF k = 0 THEN RInt(1) ELSE RMul(b, RPowNat(b, k - 1))

\* Math.pow(b, e) where e is a whole number (the only exponents the frames
\* explored here produce)
Pow(b, e) == RPowNat(b, e.n)

View(x, y, z) == [centerX |-> x, centerY |-> y, zoom |-> z]

\* { centerX: -0.5, centerY: 0, zoom: 1 }
DefaultView == View(Rat(-1, 2), RInt(0), RInt(1))

\* canvas.getBoundingClientRect(), with devicePixelRatio 1
CanvasRect == [left |-> 0, top |-> 0, width |-> 4, height |-> 2]

\* the x, y, z parameters of window.location.hash: each is <<>> when it is
\* absent or does not parse as a number (parseFloat gives NaN), else <<value>>
UrlOf(view) == [x |-> <<view.centerX>>, y |-> <<view.centerY>>, z |-> <<view.zoom>>]

NoHash == [x |-> <<>>, y |-> <<>>, z |-> <<>>]

\* parseUrlState: <<>> stands for null
parseUrlState(hash) ==
    IF hash = NoHash THEN <<>>
    ELSE IF hash.x = <<>> \/ hash.y = <<>> \/ hash.z = <<>> THEN <<>>
    ELSE <<View(hash.x[1], hash.y[1], hash.z[1])>>

\* urlState || { centerX: -0.5, centerY: 0, zoom: 1 }
InitialView(hash) ==
    IF parseUrlState(hash) = <<>> THEN DefaultView ELSE parseUrlState(hash)[1]

\* the offsets findBestReference searches, as fractions of the view
SearchPoints ==
    << <<RInt(0), RInt(0)>>, <<Rat(-1, 4), RInt(0)>>, <<Rat(1, 4), RInt(0)>>,
       <<RInt(0), Rat(-1, 4)>>, <<RInt(0), Rat(1, 4)>>,
       <<Rat(-1, 4), Rat(-1, 4)>>, <<Rat(1, 4), Rat(-1, 4)>>,
       <<Rat(-1, 4), Rat(1, 4)>>, <<Rat(1, 4), Rat(1, 4)>>,
       <<Rat(-1, 10), RInt(0)>>, <<Rat(1, 10), RInt(0)>>,
       <<RInt(0), Rat(-1, 10)>>, <<RInt(0), Rat(1, 10)>> >>

\* a comparison that takes every point tested
betterOfLast(best, test, maxIterations) ==
    CHOOSE r \in {[x |-> test.re, y |-> test.im, escapeIter |-> escape] :
                    escape \in {testEscape(test, maxIterations)}} : TRUE

\* the better of the best so far and the point test: escape > bestEscape
betterOf(best, test, maxIterations) ==
    CHOOSE r \in {IF escape > best.escapeIter
                  THEN [x |-> test.re, y |-> test.im, escapeIter |-> escape]
                  ELSE best : escape \in {testEscape(test, maxIterations)}} : TRUE

\* one pass of findBestReference's search loop: the best after search point k
searchStep(k, best, center, viewWidth, viewHeight, maxIterations) ==
    CHOOSE r \in {betterOf(best, test, maxIterations) :
                    test \in {Cx(RAdd(center.re, RMul(SearchPoints[k][1], viewWidth)),
                                 RAdd(center.im, RMul(SearchPoints[k][2], viewHeight)))}} :
        TRUE

\* findBestReference's search loop from search point k with the best so far;
\* it ends early once a point that never escapes was taken
RECURSIVE searchLoop(_, _, _, _, _, _)
searchLoop(k, best, center, viewWidth, viewHeight, maxIterations) ==
    IF k > Len(SearchPoints) THEN best
    ELSE CHOOSE r \in
            {IF next # best /\ next.escapeIter >= maxIterations THEN next
             ELSE searchLoop(k + 1, next, center, viewWidth, viewHeight,
                             maxIterations) :
                next \in {searchStep(k, best, center, viewWidth, viewHeight,
                                     maxIterations)}} : TRUE

\* findBestReference: the centre when it escapes late (>= 0.8 * maxIterations),
\* else the best of the search points
findBestReference(centerX, centerY, viewWidth, viewHeight, maxIterations) ==
    LET center == Cx(centerX, centerY)
        first  == [x |-> centerX, y |-> centerY,
                   escapeIter |-> testEscape(center, maxIterations)]
    IN  CHOOSE r \in
            {IF 5 * f.escapeIter >= 4 * maxIterations THEN f
             ELSE searchLoop(1, f, center, viewWidth, viewHeight, maxIterations) :
                f \in {first}} : TRUE

\* the record stored in lastRefPointRef and the data uploaded to the texture
\* for the reference bestRef and its orbit
ReferenceOf(view, bestRef, orbit) ==
    [lastRef |-> <<[centerX |-> view.centerX, centerY |-> view.centerY,
                    refX |-> bestRef.x, refY |-> bestRef.y,
                    escapeIter |-> orbit.escapeIter, zoom |-> view.zoom]>>,
     tex |-> orbit.data]

\* a new reference for the view: findBestReference, then computeReferenceOrbit
NewReference(view, viewWidth, viewHeight) ==
    CHOOSE r \in
        {ReferenceOf(view, bestRef,
                     computeReferenceOrbit(Cx(bestRef.x, bestRef.y), ViewMaxIter)) :
            bestRef \in {findBestReference(view.centerX, view.centerY, viewWidth,
                                           viewHeight, ViewMaxIter)}} : TRUE

\* what render(view) leaves in lastRefPointRef and in the orbit texture, given
\* the animation and drag flags at the time of the call
RenderOutcome(view, animating, dragging) ==
    LET aspectRatio == Rat(CanvasRect.width, CanvasRect.height)
        viewWidth   == RDiv(RInt(4), view.zoom)
        viewHeight  == RDiv(viewWidth, aspectRatio)
        hasRef      == lastRefPoint # <<>>
        refInView   ==
            /\ hasRef
            /\ RLess(RAbs(RSub(lastRefPoint[1].refX, view.centerX)),
                     RMul(viewWidth, Rat(2, 5)))
            /\ RLess(RAbs(RSub(lastRefPoint[1].refY, view.centerY)),
                     RMul(viewHeight, Rat(2, 5)))
        needNewRef  ==
            /\ ~animating
            /\ ~dragging
            /\ \/ ~hasRef
               \/ ~refInView
               \/ RLess(RMul(view.zoom, Rat(1, 2)),
                        RAbs(RSub(lastRefPoint[1].zoom, view.zoom)))
    IN  IF needNewRef
        THEN NewReference(view, viewWidth, viewHeight)
        ELSE [lastRef |-> lastRefPoint, tex |-> refOrbitTex]

\* render(view) as a step: the reference bookkeeping it leaves behind
Rendered(view, animating, dragging) ==
    \E r \in {RenderOutcome(view, animating, dragging)} :
        /\ lastRefPoint' = r.lastRef
        /\ refOrbitTex' = r.tex

\* the complex point under the screen point p = <<screenX, screenY>>
ScreenToComplex(p, current) ==
    LET x == p[1] - CanvasRect.left
        y == p[2] - CanvasRect.top
        aspectRatio == Rat(CanvasRect.width, CanvasRect.height)
        viewWidth   == RDiv(RInt(4), current.zoom)
        viewHeight  == RDiv(viewWidth, aspectRatio)
    IN  Cx(RAdd(current.centerX,
                RMul(RSub(Rat(x, CanvasRect.width), Rat(1, 2)), viewWidth)),
           RAdd(current.centerY,
                RMul(RSub(Rat(1, 2), Rat(y, CanvasRect.height)), viewHeight)))

\* current moved towards the point pt by panFactor, at zoom newZoom
PannedView(current, pt, panFactor, newZoom) ==
    View(RAdd(current.centerX, RMul(RSub(pt.re, current.centerX), panFactor)),
         RAdd(current.centerY, RMul(RSub(pt.im, current.centerY), panFactor)),
         newZoom)

\* zoomAt's target: zoomFactor 2 / 0.5 and panFactor 0.5 / -0.5
ZoomAtTarget(p, zoomIn, current) ==
    LET zoomFactor == IF zoomIn THEN RInt(2) ELSE Rat(1, 2)
        panFactor  == IF zoomIn THEN Rat(1, 2) ELSE Rat(-1, 2)
    IN  PannedView(current, ScreenToComplex(p, current), panFactor,
                   RMul(current.zoom, zoomFactor))

\* a new view that pans towards the point whatever the factor
ZoomAtInstantViewTowards(p, zoomFactor, current) ==
    LET panFactor == IF RLess(RInt(1), zoomFactor)
                     THEN RSub(RInt(1), RDiv(RInt(1), zoomFactor))
                     ELSE RSub(RInt(1), zoomFactor)
    IN  PannedView(current, ScreenToComplex(p, current), panFactor,
                   RMul(current.zoom, zoomFactor))

\* zoomAtInstant's new view
ZoomAtInstantView(p, zoomFactor, current) ==
    LET panFactor == IF RLess(RInt(1), zoomFactor)
                     THEN RSub(RInt(1), RDiv(RInt(1), zoomFactor))
                     ELSE RSub(RInt(1), zoomFactor)
        direction == IF RLess(RInt(1), zoomFactor) THEN RInt(1) ELSE RInt(-1)
    IN  PannedView(current, ScreenToComplex(p, current),
                   RMul(panFactor, direction), RMul(current.zoom, zoomFactor))

\* pan's new view for a drag of <<deltaX, deltaY>> CSS pixels
PanView(delta, current) ==
    LET aspectRatio == Rat(CanvasRect.width, CanvasRect.height)
        viewWidth   == RDiv(RInt(4), current.zoom)
        viewHeight  == RDiv(viewWidth, aspectRatio)
    IN  View(RSub(current.centerX, RMul(Rat(delta[1], CanvasRect.width), viewWidth)),
             RAdd(current.centerY, RMul(Rat(delta[2], CanvasRect.height), viewHeight)),
             current.zoom)

\* the target reset() animates to
ResetTarget == View(Rat(-1, 2), RInt(0), RInt(1))

\* the view handleFractalSetChange navigates to for a set family
FamilyView(type) ==
    IF type = "mandelbrot" THEN View(Rat(-1, 2), RInt(0), RInt(1))
    ELSE IF type = "burning-ship" THEN View(Rat(-2, 5), Rat(-1, 2), RInt(1))
    ELSE View(RInt(0), RInt(0), RInt(1))

\* eased = 1 - (1 - progress)^3
EaseOutCubic(progress) ==
    RSub(RInt(1), RPowNat(RSub(RInt(1), progress), 3))

\* the view of an animation frame at the given progress
FrameView(startView, target, progress) ==
    LET eased == EaseOutCubic(progress)
    IN  View(RAdd(startView.centerX,
                  RMul(RSub(target.centerX, startView.centerX), eased)),
             RAdd(startView.centerY,
                  RMul(RSub(target.centerY, startView.centerY), eased)),
             RMul(startView.zoom, Pow(RDiv(target.zoom, startView.zoom), eased)))

\* animateTo(target, duration): the frame callback is scheduled, replacing a
\* pending one (cancelAnimationFrame), and the animation flag is raised
animateTo(target, duration) ==
    /\ isAnimating' = TRUE
    /\ pendingFrame' = <<[startView |-> currentView, target |-> target,
                          duration |-> duration]>>

\* the history of a zoom-in / zoom-out pair at one screen point: a zoom-in
\* requested on a settled view opens it, its last frame and the zoom-out at
\* the same point advance it, anything else that moves the view closes it
RoundTripAfterZoomAt(p, zoomIn) ==
    IF zoomIn /\ pendingFrame = <<>>
    THEN <<[pre |-> currentView, p |-> p, stage |-> "in"]>>
    ELSE IF ~zoomIn /\ roundTrip # <<>> /\ roundTrip[1].stage = "inDone"
            /\ roundTrip[1].p = p
    THEN <<[roundTrip[1] EXCEPT !.stage = "out"]>>
    ELSE <<>>

RoundTripAfterFrame(done) ==
    IF roundTrip = <<>> \/ ~done THEN roundTrip
    ELSE IF roundTrip[1].stage = "in" THEN <<[roundTrip[1] EXCEPT !.stage = "inDone"]>>
    ELSE IF roundTrip[1].stage = "out" THEN <<[roundTrip[1] EXCEPT !.stage = "outDone"]>>
    ELSE roundTrip

zoomAt(p, zoomIn) ==
    /\ opCount < MaxOps
    /\ opCount' = opCount + 1
    /\ animateTo(ZoomAtTarget(p, zoomIn, currentView), 300)
    /\ lastNav' = <<>>
    /\ roundTrip' = RoundTripAfterZoomAt(p, zoomIn)
    /\ UNCHANGED <<currentView, isDragging, urlHash, urlUpdateTimeout, fractalSet,
                   lastRefPoint, refOrbitTex, mountFrame, lastReset>>
    /\ UNCHANGED <<pixVars, tileVars, auxVars>>

zoomAtInstant(p, zoomFactor) ==
    /\ opCount < MaxOps
    /\ opCount' = opCount + 1
    /\ \E newView \in {ZoomAtInstantView(p, zoomFactor, currentView)} :
           /\ currentView' = newView
           /\ Rendered(newView, isAnimating, isDragging)
           /\ urlUpdateTimeout' = <<newView>>
    /\ lastNav' = <<>>
    /\ roundTrip' = <<>>
    /\ UNCHANGED <<isAnimating, isDragging, pendingFrame, urlHash, fractalSet,
                   mountFrame, lastReset>>
    /\ UNCHANGED <<pixVars, tileVars, auxVars>>

pan(delta) ==
    /\ opCount < MaxOps
    /\ opCount' = opCount + 1
    /\ \E newView \in {PanView(delta, currentView)} :
           /\ currentView' = newView
           /\ Rendered(newView, isAnimating, isDragging)
           /\ urlUpdateTimeout' = <<newView>>
    /\ lastNav' = <<>>
    /\ roundTrip' = <<>>
    /\ UNCHANGED <<isAnimating, isDragging, pendingFrame, urlHash, fractalSet,
                   mountFrame, lastReset>>
    /\ UNCHANGED <<pixVars, tileVars, auxVars>>

reset ==
    /\ opCount < MaxOps
    /\ opCount' = opCount + 1
    /\ animateTo(ResetTarget, 500)
    /\ lastReset' = <<[set |-> fractalSet, target |-> ResetTarget]>>
    /\ lastNav' = <<>>
    /\ roundTrip' = <<>>
    /\ UNCHANGED <<currentView, isDragging, urlHash, urlUpdateTimeout, fractalSet,
                   lastRefPoint, refOrbitTex, mountFrame>>
    /\ UNCHANGED <<pixVars, tileVars, auxVars>>

handleResize ==
    /\ opCount < MaxOps
    /\ opCount' = opCount + 1
    /\ Rendered(currentView, isAnimating, isDragging)
    /\ UNCHANGED <<currentView, isAnimating, isDragging, pendingFrame, urlHash,
                   urlUpdateTimeout, fractalSet, mountFrame, lastNav, roundTrip,
                   lastReset>>
    /\ UNCHANGED <<pixVars, tileVars, auxVars>>

startDrag ==
    /\ opCount < MaxOps
    /\ opCount' = opCount + 1
    /\ isDragging' = TRUE
    /\ UNCHANGED <<currentView, isAnimating, pendingFrame, urlHash, urlUpdateTimeout,
                   fractalSet, lastRefPoint, refOrbitTex, mountFrame, lastNav,
                   roundTrip, lastReset>>
    /\ UNCHANGED <<pixVars, tileVars, auxVars>>

stopDrag ==
    /\ opCount < MaxOps
    /\ opCount' = opCount + 1
    /\ isDragging' = FALSE
    /\ Rendered(currentView, isAnimating, FALSE)
    /\ UNCHANGED <<currentView, isAnimating, pendingFrame, urlHash, urlUpdateTimeout,
                   fractalSet, mountFrame, lastNav, roundTrip, lastReset>>
    /\ UNCHANGED <<pixVars, tileVars, auxVars>>

setCenter(pt) ==
    /\ opCount < MaxOps
    /\ opCount' = opCount + 1
    /\ \E newView \in {View(pt.re, pt.im, currentView.zoom)} :
           /\ currentView' = newView
           /\ Rendered(newView, isAnimating, isDragging)
           /\ urlHash' = UrlOf(newView)
    /\ lastNav' = <<>>
    /\ roundTrip' = <<>>
    /\ UNCHANGED <<isAnimating, isDragging, pendingFrame, urlUpdateTimeout,
                   fractalSet, mountFrame, lastReset>>
    /\ UNCHANGED <<pixVars, tileVars, auxVars>>

navigateTo(newView) ==
    /\ opCount < MaxOps
    /\ opCount' = opCount + 1
    /\ currentView' = newView
    /\ Rendered(newView, isAnimating, isDragging)
    /\ urlHash' = UrlOf(newView)
    /\ lastNav' = <<newView>>
    /\ roundTrip' = <<>>
    /\ UNCHANGED <<isAnimating, isDragging, pendingFrame, urlUpdateTimeout,
                   fractalSet, mountFrame, lastReset>>
    /\ UNCHANGED <<pixVars, tileVars, auxVars>>

\* handleFractalSetChange of the canvas component: the set is replaced, the
\* view jumps to the family's view (navigateTo), and the hook's effect runs
\* again for the new set: a new orbit texture, and an initial render queued
handleFractalSetChange(type) ==
    /\ opCount < MaxOps
    /\ opCount' = opCount + 1
    /\ fractalSet' = type
    /\ currentView' = FamilyView(type)
    /\ \E r \in {RenderOutcome(FamilyView(type), isAnimating, isDragging)} :
           lastRefPoint' = r.lastRef
    /\ urlHash' = UrlOf(FamilyView(type))
    /\ refOrbitTex' = <<>>
    /\ mountFrame' = TRUE
    /\ lastNav' = <<FamilyView(type)>>
    /\ roundTrip' = <<>>
    /\ UNCHANGED <<isAnimating, isDragging, pendingFrame, urlUpdateTimeout, lastReset>>
    /\ UNCHANGED <<pixVars, tileVars, auxVars>>

\* the animation frame callback, at the given progress = min(elapsed / duration, 1)
animate(progress) ==
    /\ pendingFrame # <<>>
    /\ \E view \in {FrameView(pendingFrame[1].startView, pendingFrame[1].target,
                                progress)},
          done \in {~RLess(progress, RInt(1))} :
           /\ currentView' = view
           /\ Rendered(view, isAnimating, isDragging)
           /\ IF ~done
              THEN UNCHANGED <<pendingFrame, isAnimating, urlHash>>
              ELSE /\ pendingFrame' = <<>>
                   /\ isAnimating' = FALSE
                   /\ urlHash' = UrlOf(view)
           /\ roundTrip' = RoundTripAfterFrame(done)
    /\ UNCHANGED <<isDragging, urlUpdateTimeout, fractalSet, mountFrame, opCount,
                   lastNav, lastReset>>
    /\ UNCHANGED <<pixVars, tileVars, auxVars>>

\* the debounced updateUrl(newView) of zoomAtInstant and pan
urlUpdateTimeoutFires ==
    /\ urlUpdateTimeout # <<>>
    /\ urlHash' = UrlOf(urlUpdateTimeout[1])
    /\ urlUpdateTimeout' = <<>>
    /\ UNCHANGED <<currentView, isAnimating, isDragging, pendingFrame, fractalSet,
                   lastRefPoint, refOrbitTex, mountFrame, opCount, lastNav,
                   roundTrip, lastReset>>
    /\ UNCHANGED <<pixVars, tileVars, auxVars>>

\* the initial render the effect queues: the reference of the current view is
\* computed and uploaded whatever the flags
initialRender ==
    /\ mountFrame
    /\ mountFrame' = FALSE
    /\ LET view == currentView
           viewWidth  == RDiv(RInt(4), view.zoom)
           viewHeight == RDiv(viewWidth, Rat(CanvasRect.width, CanvasRect.height))
       IN  \E r \in {NewReference(view, viewWidth, viewHeight)} :
               /\ lastRefPoint' = r.lastRef
               /\ refOrbitTex' = r.tex
    /\ UNCHANGED <<currentView, isAnimating, isDragging, pendingFrame, urlHash,
                   urlUpdateTimeout, fractalSet, opCount, lastNav, roundTrip,
                   lastReset>>
    /\ UNCHANGED <<pixVars, tileVars, auxVars>>

-----------------------------------------------------------------------------
(* Specification of the view model: the hook after its effect ran, then any *)
(* MaxOps calls of its operations, with frames and timers in between.       *)

ScreenPoints == {<<2, 1>>, <<3, 0>>}

\* pinch factors dist / touchStartDist: fingers twice, half as far apart
ZoomFactors == {RInt(2), Rat(1, 2)}

PanDeltas == {<<1, -1>>}

CenterPoints == {Cx(RInt(0), Rat(1, 2))}

NavTargets == {View(Rat(-2, 5), Rat(-1, 2), RInt(1))}

SetTypes == {"mandelbrot", "julia", "burning-ship", "tricorn", "multibrot"}

\* the hashes the page is opened with: none, a view, a view left of the set
\* (every point findBestReference tries escapes at once), a view without z,
\* and a view whose z is negative
UrlHashes ==
    {NoHash,
     [x |-> <<RInt(0)>>, y |-> <<RInt(0)>>, z |-> <<RInt(2)>>],
     [x |-> <<RInt(-4)>>, y |-> <<RInt(0)>>, z |-> <<RInt(1)>>],
     [x |-> <<RInt(0)>>, y |-> <<RInt(0)>>, z |-> <<>>],
     [x |-> <<RInt(0)>>, y |-> <<RInt(0)>>, z |-> <<RInt(-2)>>]}

\* progress at a frame: its first frame (elapsed 0) and its last (elapsed >= duration)
FrameProgress == {RInt(0), RInt(1)}

ViewInit ==
    /\ urlHash \in UrlHashes
    /\ currentView = InitialView(urlHash)
    /\ isAnimating = FALSE
    /\ isDragging = FALSE
    /\ pendingFrame = <<>>
    /\ urlUpdateTimeout = <<>>
    /\ fractalSet = "mandelbrot"
    /\ lastRefPoint = <<>>
    /\ refOrbitTex = <<>>
    /\ mountFrame = TRUE
    /\ opCount = 0
    /\ lastNav = <<>>
    /\ roundTrip = <<>>
    /\ lastReset = <<>>
    /\ PixIdle
    /\ TileIdle
    /\ AuxIdle

ViewNext ==
    \/ \E p \in ScreenPoints, zoomIn \in BOOLEAN : zoomAt(p, zoomIn)
    \/ \E p \in ScreenPoints, f \in ZoomFactors : zoomAtInstant(p, f)
    \/ \E delta \in PanDeltas : pan(delta)
    \/ reset
    \/ handleResize
    \/ startDrag
    \/ stopDrag
    \/ \E pt \in CenterPoints : setCenter(pt)
    \/ \E target \in NavTargets : navigateTo(target)
    \/ \E type \in SetTypes : handleFractalSetChange(type)
    \/ \E progress \in FrameProgress : animate(progress)
    \/ urlUpdateTimeoutFires
    \/ initialRender

SpecView == ViewInit /\ [][ViewNext]_vars

-----------------------------------------------------------------------------
(* URL serialization: the FractalSet parameters of juliaSets and the x, y,  *)
(* z of parseUrlState.  A parameter value is a text, a sequence of          *)
(* one-character strings; numbers are written by String() and read back by *)
(* parseFloat().                                                            *)

\* the value parseFloat gives for a text that starts with no number
NaN == [n |-> 0, d |-> 0]

DigitChars == <<"0", "1", "2", "3", "4", "5", "6", "7", "8", "9">>

IsDigit(ch) == \E i \in DOMAIN DigitChars : DigitChars[i] = ch

DigitVal(ch) == (CHOOSE i \in DOMAIN DigitChars : DigitChars[i] = ch) - 1

RECURSIVE Pow10(_)
Pow10(k) == IF k = 0 THEN 1 ELSE 10 * Pow10(k - 1)

\* the run of decimal digits of s from position i on: its value, the position
\* after it and its length
RECURSIVE ScanDigits(_, _, _, _)
ScanDigits(s, i, acc, count) ==
    IF i <= Len(s) /\ IsDigit(s[i])
    THEN ScanDigits(s, i + 1, acc * 10 + DigitVal(s[i]), count + 1)
    ELSE [value |-> acc, next |-> i, count |-> count]

\* a parse that stops at the decimal point, as parseInt does
parseFloatNoFraction(s) ==
    LET signed == Len(s) > 0 /\ s[1] \in {"-", "+"}
        ip     == ScanDigits(s, IF signed THEN 2 ELSE 1, 0, 0)
    IN  IF ip.count = 0 THEN NaN
        ELSE IF s[1] = "-" THEN RNeg(RInt(ip.value)) ELSE RInt(ip.value)

\* parseFloat(s): the longest prefix of s that is a decimal literal (sign,
\* digits, point, digits); NaN when there is none.  What follows the literal
\* is ignored.
parseFloat(s) ==
    LET signed   == Len(s) > 0 /\ s[1] \in {"-", "+"}
        ip       == ScanDigits(s, IF signed THEN 2 ELSE 1, 0, 0)
        hasPoint == ip.next <= Len(s) /\ s[ip.next] = "."
        fp       == IF hasPoint THEN ScanDigits(s, ip.next + 1, 0, 0)
                    ELSE [value |-> 0, next |-> ip.next, count |-> 0]
        mag      == RAdd(RInt(ip.value), Rat(fp.value, Pow10(fp.count)))
    IN  IF ip.count + fp.count = 0 THEN NaN
        ELSE IF s[1] = "-" THEN RNeg(mag) ELSE mag

RECURSIVE NatChars(_)
NatChars(k) ==
    IF k < 10 THEN <<DigitChars[k + 1]>>
    ELSE NatChars(k \div 10) \o <<DigitChars[(k % 10) + 1]>>

\* the decimal digits of rem / d, for 0 <= rem < d and d a divisor of a power
\* of ten
RECURSIVE FracChars(_, _)
FracChars(rem, d) ==
    IF rem = 0 THEN <<>>
    ELSE <<DigitChars[((rem * 10) \div d) + 1]>> \o FracChars((rem * 10) % d, d)

\* String(x) for a number x: "NaN", or sign, integer digits and, when x is
\* not whole, a point and the fraction digits
NumberToString(x) ==
    IF x = NaN THEN <<"N", "a", "N">>
    ELSE LET a == Abs(x.n)
         IN  (IF x.n < 0 THEN <<"-">> ELSE <<>>)
             \o NatChars(a \div x.d)
             \o (IF a % x.d = 0 THEN <<>> ELSE <<".">> \o FracChars(a % x.d, x.d))

\* params.get(key) || fallback, for a text value
GetOr(params, key, fallback) ==
    IF params[key] = <<>> \/ params[key][1] = <<>> THEN fallback
    ELSE params[key][1]

\* juliaPresets
juliaPresets ==
    <<[id |-> "dendrite",  cr |-> RInt(0),             ci |-> RInt(1)],
      [id |-> "rabbit",    cr |-> Rat(-123, 1000),     ci |-> Rat(745, 1000)],
      [id |-> "siegel",    cr |-> Rat(-391, 1000),     ci |-> Rat(-587, 1000)],
      [id |-> "dragon",    cr |-> Rat(-8, 10),         ci |-> Rat(156, 1000)],
      [id |-> "spiral",    cr |-> Rat(-75, 100),       ci |-> Rat(11, 100)],
      [id |-> "galaxy",    cr |-> Rat(-4, 10),         ci |-> Rat(6, 10)],
      [id |-> "lightning", cr |-> Rat(-70176, 100000), ci |-> Rat(-3842, 10000)],
      [id |-> "snowflake", cr |-> Rat(-1, 10),         ci |-> Rat(651, 1000)]>>

\* multibrotPresets
multibrotPresets ==
    <<[id |-> "cubic",   power |-> RInt(3)],
      [id |-> "quartic", power |-> RInt(4)],
      [id |-> "quintic", power |-> RInt(5)],
      [id |-> "sextic",  power |-> RInt(6)]>>

\* Array.prototype.find over the indices that satisfy the predicate: <<>> for
\* undefined, else <<the first element>>
Find(presets, matching) ==
    IF matching = {} THEN <<>>
    ELSE <<presets[CHOOSE i \in matching : \A k \in matching : i <= k]>>

getJuliaPresetById(id) ==
    Find(juliaPresets, {i \in DOMAIN juliaPresets : juliaPresets[i].id = id})

getMultibrotPresetById(id) ==
    Find(multibrotPresets, {i \in DOMAIN multibrotPresets : multibrotPresets[i].id = id})

\* fractalSetToUrlParams: the Record it returns, {} being the empty function
fractalSetToUrlParams(set) ==
    IF set.type = "mandelbrot" THEN <<>>
    ELSE IF set.type = "burning-ship" THEN [set |-> "ship"]
    ELSE IF set.type = "tricorn" THEN [set |-> "tricorn"]
    ELSE IF set.type = "multibrot"
    THEN LET preset == Find(multibrotPresets,
                            {i \in DOMAIN multibrotPresets :
                                multibrotPresets[i].power = set.power})
         IN  IF preset # <<>> THEN [set |-> "multi", p |-> preset[1].id]
             ELSE [set |-> "multi", pow |-> NumberToString(set.power)]
    ELSE IF set.type = "julia"
    THEN LET preset == Find(juliaPresets,
                            {i \in DOMAIN juliaPresets :
                                /\ juliaPresets[i].cr = set.cr
                                /\ juliaPresets[i].ci = set.ci})
         IN  IF preset # <<>> THEN [set |-> "julia", j |-> preset[1].id]
             ELSE [set |-> "julia", jr |-> NumberToString(set.cr),
                   ji |-> NumberToString(set.ci)]
    ELSE <<>>

\* new URLSearchParams(record)
URLSearchParams(record) ==
    [key \in DOMAIN NoParams |->
        IF key \in DOMAIN record THEN <<record[key]>> ELSE <<>>]

\* fractalSetFromUrlParams
fractalSetFromUrlParams(params) ==
    LET setType == params.set
    IN  IF setType = <<"ship">> THEN [type |-> "burning-ship"]
        ELSE IF setType = <<"tricorn">> THEN [type |-> "tricorn"]
        ELSE IF setType = <<"multi">>
        THEN LET presetId == params.p
                 preset   == IF presetId # <<>> /\ presetId[1] # ""
                             THEN getMultibrotPresetById(presetId[1]) ELSE <<>>
             IN  IF preset # <<>>
                 THEN [type |-> "multibrot", power |-> preset[1].power]
                 ELSE [type |-> "multibrot",
                       power |-> parseFloat(GetOr(params, "pow", <<"3">>))]
        ELSE IF setType = <<"julia">>
        THEN LET presetId == params.j
                 preset   == IF presetId # <<>> /\ presetId[1] # ""
                             THEN getJuliaPresetById(presetId[1]) ELSE <<>>
             IN  IF preset # <<>>
                 THEN [type |-> "julia", cr |-> preset[1].cr, ci |-> preset[1].ci]
                 ELSE [type |-> "julia",
                       cr |-> parseFloat(GetOr(params, "jr", <<"0">>)),
                       ci |-> parseFloat(GetOr(params, "ji", <<"0">>))]
        ELSE [type |-> "mandelbrot"]

\* parseFloat(params.get(key) || '') as parseUrlState sees it: <<>> for NaN
ParsedParam(params, key) ==
    LET v == parseFloat(GetOr(params, key, <<>>))
    IN  IF v = NaN THEN <<>> ELSE <<v>>

\* the x, y, z of a hash as numbers
HashOf(params) ==
    [x |-> ParsedParam(params, "x"), y |-> ParsedParam(params, "y"),
     z |-> ParsedParam(params, "z")]

\* the FractalSets written to the hash: the plain families, multibrot with
\* each preset power and with custom powers, julia with each preset and with
\* custom constants
FractalSets ==
    {[type |-> "mandelbrot"], [type |-> "burning-ship"], [type |-> "tricorn"]}
    \cup {[type |-> "multibrot", power |-> multibrotPresets[i].power] :
            i \in DOMAIN multibrotPresets}
    \cup {[type |-> "multibrot", power |-> w] :
            w \in {RInt(2), Rat(5, 2), RInt(7), RInt(0), Rat(-3, 2), Rat(1, 8)}}
    \cup {[type |-> "julia", cr |-> juliaPresets[i].cr, ci |-> juliaPresets[i].ci] :
            i \in DOMAIN juliaPresets}
    \cup {[type |-> "julia", cr |-> c[1], ci |-> c[2]] :
            c \in {<<RInt(0), RInt(0)>>, <<Rat(-1, 2), Rat(1, 4)>>,
                   <<Rat(-123, 1000), RInt(0)>>, <<RInt(1), RInt(0)>>,
                   <<Rat(3, 10), Rat(-1, 100)>>}}

\* the hashes the page is opened with: every field absent, well formed, or
\* malformed (an unknown id, a text that is no number, an empty value)
OpenedHashes ==
    [set : {<<>>, <<"julia">>, <<"multi">>, <<"bogus">>},
     j   : {<<>>, <<"rabbit">>, <<"bogus">>},
     p   : {<<>>, <<"cubic">>, <<"bogus">>},
     jr  : {<<>>, <<<<"0", ".", "5">>>>, <<<<"a", "b", "c">>>>},
     ji  : {<<>>, <<<<"-", "1">>>>},
     pow : {<<>>, <<<<"2", ".", "5">>>>, <<<<"a", "b", "c">>>>, <<<<>>>>},
     x   : {<<>>, <<<<"0", ".", "5">>>>, <<<<"a", "b", "c">>>>},
     y   : {<<>>, <<<<"0">>>>},
     z   : {<<>>, <<<<"2">>>>, <<<<"1", "a">>>>}]

\* either a FractalSet is about to be written, or a hash is about to be read
UrlInit ==
    /\ \/ /\ urlStage = "set"
          /\ urlSet \in {<<s>> : s \in FractalSets}
          /\ urlParams = NoParams
       \/ /\ urlStage = "params"
          /\ urlSet = <<>>
          /\ urlParams \in OpenedHashes
    /\ urlParsed = <<>>
    /\ PixIdle
    /\ TileIdle
    /\ ViewIdle
    /\ WorkIdle
    /\ PalIdle
    /\ ColIdle
    /\ VidIdle
    /\ DdIdle
    /\ RefIdle
    /\ AnimIdle
    /\ GestIdle
    /\ SelIdle
    /\ FrIdle

\* the set is serialized into a fresh parameter list
ToUrlParams ==
    /\ urlStage = "set"
    /\ urlParams' = URLSearchParams(fractalSetToUrlParams(urlSet[1]))
    /\ urlStage' = "params"
    /\ UNCHANGED <<urlSet, urlParsed>>
    /\ UNCHANGED <<pixVars, tileVars, viewVars, workVars, palVars, colVars, vidVars, ddVars, refVars, animVars, gestVars, selVars, frVars>>

\* startup: the set (getFractalSetFromUrl) and the view (the useState
\* initialiser of the hook) are read from the hash
FromUrlParams ==
    /\ urlStage = "params"
    /\ urlParsed' = <<[set  |-> fractalSetFromUrlParams(urlParams),
                       view |-> InitialView(HashOf(urlParams))]>>
    /\ urlStage' = "parsed"
    /\ UNCHANGED <<urlSet, urlParams>>
    /\ UNCHANGED <<pixVars, tileVars, viewVars, workVars, palVars, colVars, vidVars, ddVars, refVars, animVars, gestVars, selVars, frVars>>

UrlNext ==
    \/ ToUrlParams
    \/ FromUrlParams

SpecUrl == UrlInit /\ [][UrlNext]_vars

-----------------------------------------------------------------------------
(* The worker on single points: a compute message for a 1 x 1 image whose   *)
(* only pixel is the point c.                                               *)

\* the largest maxIterations of the runs on whole-number points, enough for
\* the period check to take its first sample (after 21 steps) and to meet it
\* again
PeriodMaxIter == 23

\* the compute message whose pixel (0, 0) is the point c: zoom 1 gives a view
\* 4 wide and 4 high, so minX = centerX - 2 and minY = centerY - 2
PointMessage(c, maxIterations) ==
    [type |-> "compute", width |-> 1, height |-> 1,
     centerX |-> RAdd(c.re, RInt(2)), centerY |-> RAdd(c.im, RInt(2)),
     zoom |-> RInt(1), maxIterations |-> maxIterations,
     startRow |-> 0, endRow |-> 1, taskId |-> 0]

\* the points with whole coordinates, whose orbits stay whole numbers
WholePoints == {Cx(RInt(a), RInt(b)) : a, b \in -2..2}

\* the points of the half-unit grid over [-2, 2] x [-2, 2]
HalfPoints == {Cx(a, b) : a, b \in Halves(-4, 4)}

\* the points and budgets the worker is run on
WorkInputs ==
    {[c |-> c, maxIterations |-> k] : c \in HalfPoints, k \in 1..TileMaxIter}
    \cup {[c |-> c, maxIterations |-> k] : c \in WholePoints, k \in 1..PeriodMaxIter}

WorkInit ==
    /\ wkInput \in WorkInputs
    /\ wkOutput = <<>>
    /\ PixIdle
    /\ TileIdle
    /\ ViewIdle
    /\ UrlIdle
    /\ PalIdle
    /\ ColIdle
    /\ VidIdle
    /\ DdIdle
    /\ RefIdle
    /\ AnimIdle
    /\ GestIdle
    /\ SelIdle
    /\ FrIdle

\* self.onmessage for the point's message: the single count of its result
WorkerRun ==
    /\ wkOutput = <<>>
    /\ wkOutput' = <<WorkerResult(PointMessage(wkInput.c,
                                               wkInput.maxIterations)).iterations[1]>>
    /\ UNCHANGED wkInput
    /\ UNCHANGED <<pixVars, tileVars, viewVars, urlVars, palVars, colVars, vidVars, ddVars, refVars, animVars, gestVars, selVars, frVars>>

WorkNext == WorkerRun

SpecWorker == WorkInit /\ [][WorkNext]_vars

-----------------------------------------------------------------------------
(* Palette rotation (MandelbrotCanvas: rotatedTheme and the arrow keys)     *)

\* the range of colorOffset explored: -MaxOffset .. MaxOffset
MaxOffset == 9

\* JavaScript's a % b for b > 0: the result takes the sign of a
JsRem(a, b) == IF a >= 0 THEN a % b ELSE -((-a) % b)

\* Array.prototype.slice(start, end) for 0 <= start and 0 <= end
Slice(arr, start, end) ==
    LET from == IF start > Len(arr) THEN Len(arr) ELSE start
        to   == IF end > Len(arr) THEN Len(arr) ELSE end
    IN  IF from >= to THEN <<>> ELSE SubSeq(arr, from + 1, to)

\* an offset used as it is, without wrapping it into 0 .. len - 1
RotationOffsetNoWrap(offset, len) == IF offset < 0 THEN 0 ELSE offset

\* ((colorOffset % len) + len) % len
RotationOffset(offset, len) == JsRem(JsRem(offset, len) + len, len)

\* colorThemes.findIndex(t => t.id === id), counted from 1
ThemeIndex(themes, id) ==
    CHOOSE i \in DOMAIN themes :
        /\ themes[i].id = id
        /\ \A k \in DOMAIN themes : themes[k].id = id => i <= k

\* the theme state: the element of colorThemes with the id
CurrentTheme == palThemes[ThemeIndex(palThemes, palTheme)]

\* rotatedTheme: the theme itself for offset 0, else a copy whose colors are
\* [...colors.slice(offset), ...colors.slice(0, offset)]
rotatedTheme(theme, offset) ==
    IF offset = 0 THEN theme
    ELSE LET len == Len(theme.colors)
             o   == RotationOffset(offset, len)
         IN  [theme EXCEPT !.colors = Slice(theme.colors, o, len)
                                       \o Slice(theme.colors, 0, o)]

PalInit ==
    /\ palThemes = ColorThemes
    /\ palTheme = ColorThemes[1].id
    /\ colorOffset = 0
    /\ PixIdle
    /\ TileIdle
    /\ ViewIdle
    /\ UrlIdle
    /\ WorkIdle
    /\ ColIdle
    /\ VidIdle
    /\ DdIdle
    /\ RefIdle
    /\ AnimIdle
    /\ GestIdle
    /\ SelIdle
    /\ FrIdle

\* ArrowLeft / ArrowRight: setColorOffset(prev => prev - 1 / prev + 1)
ArrowLeftRight(right) ==
    /\ colorOffset' = IF right THEN colorOffset + 1 ELSE colorOffset - 1
    /\ colorOffset' \in -MaxOffset..MaxOffset
    /\ UNCHANGED <<palThemes, palTheme>>
    /\ UNCHANGED <<pixVars, tileVars, viewVars, urlVars, workVars, colVars, vidVars, ddVars, refVars, animVars, gestVars, selVars, frVars>>

\* ArrowUp / ArrowDown: the previous / next theme, and the offset is reset
ArrowUpDown(up) ==
    /\ LET currentIndex == ThemeIndex(palThemes, palTheme) - 1
           count        == Len(palThemes)
           newIndex     == IF up THEN JsRem(currentIndex - 1 + count, count)
                           ELSE JsRem(currentIndex + 1, count)
       IN  palTheme' = palThemes[newIndex + 1].id
    /\ colorOffset' = 0
    /\ UNCHANGED palThemes
    /\ UNCHANGED <<pixVars, tileVars, viewVars, urlVars, workVars, colVars, vidVars, ddVars, refVars, animVars, gestVars, selVars, frVars>>

\* a theme picked in the settings menu: handleThemeChange alone
handleThemeChange(id) ==
    /\ palTheme' = id
    /\ UNCHANGED <<palThemes, colorOffset>>
    /\ UNCHANGED <<pixVars, tileVars, viewVars, urlVars, workVars, colVars, vidVars, ddVars, refVars, animVars, gestVars, selVars, frVars>>

PalNext ==
    \/ \E right \in BOOLEAN : ArrowLeftRight(right)
    \/ \E up \in BOOLEAN : ArrowUpDown(up)
    \/ \E i \in DOMAIN palThemes : handleThemeChange(palThemes[i].id)

SpecPalette == PalInit /\ [][PalNext]_vars

-----------------------------------------------------------------------------
(* Colouring: getColor / createColorLookup (utils/colors), the colouring    *)
(* loop of worker.onmessage (useMandelbrot) and the end of the shader main. *)

\* the largest maxIterations coloured
ColorMaxIter == 3

\* COLORS
COLORS ==
    <<<<255, 0, 255>>, <<0, 255, 255>>, <<157, 0, 255>>, <<0, 102, 255>>,
      <<255, 0, 128>>, <<0, 200, 255>>, <<200, 0, 255>>, <<0, 150, 255>>>>

\* the colours a gradient can give.  The gradient of an escaped count goes
\* through log2 and cos, which exact arithmetic does not give; any of these
\* palette colours stands for its value.
GradientColors == {COLORS[1], COLORS[2]}

\* a test that treats no count as being in the set
IsInSetNever(iteration, maxIterations) == iteration > maxIterations

\* iteration === maxIterations
IsInSet(iteration, maxIterations) == iteration = maxIterations

\* getColor(iteration, maxIterations): the colours it can return
getColor(iteration, maxIterations) ==
    IF IsInSet(iteration, maxIterations) THEN {<<0, 0, 0>>} ELSE GradientColors

\* the lookups createColorLookup(maxIterations) can build: (maxIterations + 1)
\* * 3 bytes, entry i holding getColor(i, maxIterations)
createColorLookup(maxIterations) ==
    {[k \in 0..((maxIterations + 1) * 3 - 1) |-> pick[k \div 3][(k % 3) + 1]] :
        pick \in {f \in [0..maxIterations -> GradientColors \cup {<<0, 0, 0>>}] :
                    \A i \in 0..maxIterations : f[i] \in getColor(i, maxIterations)}}

\* the colouring loop of worker.onmessage over rows startRow .. endRow - 1 of
\* an image created by createImageData (all bytes 0)
ApplyColorsTo(lookup, iterations, width, startRow, endRow) ==
    [d \in 0..(width * endRow * 4 - 1) |->
        LET pixel  == d \div 4
            row    == pixel \div width
            col    == pixel % width
            srcIdx == (row - startRow) * width + col
            iter   == iterations[srcIdx + 1]
        IN  IF row < startRow THEN 0
            ELSE IF d % 4 = 3 THEN 255
            ELSE lookup[iter * 3 + (d % 4)]]

\* vec4(getColor(t), 1.0): the colours the shader's gradient can give
shaderGetColor == {<<c[1], c[2], c[3], 1>> : c \in GradientColors}

\* the end of main(): the fragColor written for (escaped, iteration)
FragColors(escaped, iteration, maxIterations) ==
    IF ~escaped /\ iteration >= maxIterations THEN {<<0, 0, 0, 1>>}
    ELSE IF ~escaped THEN {<<0, 0, 0, 1>>}
    ELSE shaderGetColor

\* the results coloured: one row of one or two counts the worker reported
ColInputs ==
    UNION {{[maxIterations |-> m, width |-> w, iterations |-> it] :
                it \in [1..w -> 1..m]} : m \in 1..ColorMaxIter, w \in {1, 2}}

\* what the shader loops can end with
FragInputs ==
    UNION {[escaped : BOOLEAN, iteration : 0..m, maxIterations : {m},
            colorScale : {0, 1}] : m \in 1..ColorMaxIter}

ColInit ==
    /\ colInput \in ColInputs
    /\ colorLookup = <<>>
    /\ colImageData = <<>>
    /\ fragInput \in FragInputs
    /\ fragColor = <<>>
    /\ PixIdle
    /\ TileIdle
    /\ ViewIdle
    /\ UrlIdle
    /\ WorkIdle
    /\ PalIdle
    /\ VidIdle
    /\ DdIdle
    /\ RefIdle
    /\ AnimIdle
    /\ GestIdle
    /\ SelIdle
    /\ FrIdle

\* render: const colorLookup = createColorLookup(maxIterations)
CreateColorLookup ==
    /\ colorLookup = <<>>
    /\ colorLookup' \in {<<l>> : l \in createColorLookup(colInput.maxIterations)}
    /\ UNCHANGED <<colInput, colImageData, fragInput, fragColor>>
    /\ UNCHANGED <<pixVars, tileVars, viewVars, urlVars, workVars, palVars, vidVars, ddVars, refVars, animVars, gestVars, selVars, frVars>>

\* worker.onmessage: the result's row is coloured into the image
ApplyColors ==
    /\ colorLookup # <<>>
    /\ colImageData = <<>>
    /\ colImageData' = <<ApplyColorsTo(colorLookup[1], colInput.iterations,
                                    colInput.width, 0, 1)>>
    /\ UNCHANGED <<colInput, colorLookup, fragInput, fragColor>>
    /\ UNCHANGED <<pixVars, tileVars, viewVars, urlVars, workVars, palVars, vidVars, ddVars, refVars, animVars, gestVars, selVars, frVars>>

\* the shader writes the fragment's colour
ShadeFragment ==
    /\ fragColor = <<>>
    /\ fragColor' \in {<<c>> : c \in FragColors(fragInput.escaped, fragInput.iteration,
                                                 fragInput.maxIterations)}
    /\ UNCHANGED <<colInput, colorLookup, colImageData, fragInput>>
    /\ UNCHANGED <<pixVars, tileVars, viewVars, urlVars, workVars, palVars, vidVars, ddVars, refVars, animVars, gestVars, selVars, frVars>>

ColNext ==
    \/ CreateColorLookup
    \/ ApplyColors
    \/ ShadeFragment

SpecColor == ColInit /\ [][ColNext]_vars

-----------------------------------------------------------------------------
(* Video export: the effect of VideoRecorder (mediaRecorder.onstop, the     *)
(* renderFrame loop, the cleanup) and handleCancel.                         *)

\* the largest config.duration * config.fps exported
MaxFrames == 3

\* the most display ticks one frame interval spans (frameInterval * 0.9)
MaxFrameTicks == 2

\* the state after the effect ran: the recorder was started and the first
\* renderFrame requested; lastFrameTime = 0 lies a whole interval back
VidInit ==
    /\ vidConfig \in [totalFrames : 1..MaxFrames, frameTicks : 1..MaxFrameTicks]
    /\ cancelledRef = FALSE
    /\ vidMounted = TRUE
    /\ recorderState = "recording"
    /\ frameRequested = TRUE
    /\ vidFrame = 0
    /\ vidElapsed = vidConfig.frameTicks
    /\ framesRendered = 0
    /\ vidStatus = "recording"
    /\ downloads = 0
    /\ completeTimer = FALSE
    /\ completeCalls = 0
    /\ onCancelCalled = FALSE
    /\ PixIdle
    /\ TileIdle
    /\ ViewIdle
    /\ UrlIdle
    /\ WorkIdle
    /\ PalIdle
    /\ ColIdle
    /\ DdIdle
    /\ RefIdle
    /\ AnimIdle
    /\ GestIdle
    /\ SelIdle
    /\ FrIdle

\* renderFrame(timestamp)
RenderFrame ==
    /\ frameRequested
    /\ IF cancelledRef
       THEN /\ recorderState' = "stopping"
            /\ frameRequested' = FALSE
            /\ UNCHANGED <<vidFrame, vidElapsed, framesRendered>>
       ELSE IF vidElapsed + 1 < vidConfig.frameTicks
       THEN /\ vidElapsed' = vidElapsed + 1
            /\ UNCHANGED <<recorderState, frameRequested, vidFrame, framesRendered>>
       ELSE /\ vidElapsed' = 0
            /\ framesRendered' = framesRendered + 1
            /\ vidFrame' = vidFrame + 1
            /\ IF vidFrame + 1 <= vidConfig.totalFrames
               THEN UNCHANGED <<recorderState, frameRequested>>
               ELSE /\ recorderState' = "stopping"
                    /\ frameRequested' = FALSE
    /\ UNCHANGED <<vidConfig, cancelledRef, vidMounted, vidStatus, downloads,
                   completeTimer, completeCalls, onCancelCalled>>
    /\ UNCHANGED <<pixVars, tileVars, viewVars, urlVars, workVars, palVars, colVars, ddVars, refVars, animVars, gestVars, selVars, frVars>>

\* mediaRecorder.onstop
OnStop ==
    /\ recorderState = "stopping"
    /\ recorderState' = "inactive"
    /\ IF cancelledRef
       THEN UNCHANGED <<vidStatus, downloads, completeTimer>>
       ELSE /\ vidStatus' = "complete"
            /\ downloads' = downloads + 1
            /\ completeTimer' = TRUE
    /\ UNCHANGED <<vidConfig, cancelledRef, vidMounted, frameRequested, vidFrame,
                   vidElapsed, framesRendered, completeCalls, onCancelCalled>>
    /\ UNCHANGED <<pixVars, tileVars, viewVars, urlVars, workVars, palVars, colVars, ddVars, refVars, animVars, gestVars, selVars, frVars>>

\* the timer of setTimeout(onComplete, 1000) fires
CompleteTimeout ==
    /\ completeTimer
    /\ completeTimer' = FALSE
    /\ completeCalls' = completeCalls + 1
    /\ UNCHANGED <<vidConfig, cancelledRef, vidMounted, recorderState, frameRequested,
                   vidFrame, vidElapsed, framesRendered, vidStatus, downloads,
                   onCancelCalled>>
    /\ UNCHANGED <<pixVars, tileVars, viewVars, urlVars, workVars, palVars, colVars, ddVars, refVars, animVars, gestVars, selVars, frVars>>

\* handleCancel: the button is shown while recording or preparing
HandleCancel ==
    /\ vidMounted
    /\ vidStatus \in {"recording", "preparing"}
    /\ ~onCancelCalled
    /\ cancelledRef' = TRUE
    /\ onCancelCalled' = TRUE
    /\ UNCHANGED <<vidConfig, vidMounted, recorderState, frameRequested, vidFrame,
                   vidElapsed, framesRendered, vidStatus, downloads, completeTimer,
                   completeCalls>>
    /\ UNCHANGED <<pixVars, tileVars, viewVars, urlVars, workVars, palVars, colVars, ddVars, refVars, animVars, gestVars, selVars, frVars>>

\* the cleanup of the effect: the component unmounts
Unmount ==
    /\ vidMounted
    /\ vidMounted' = FALSE
    /\ cancelledRef' = TRUE
    /\ UNCHANGED <<vidConfig, recorderState, frameRequested, vidFrame, vidElapsed,
                   framesRendered, vidStatus, downloads, completeTimer, completeCalls,
                   onCancelCalled>>
    /\ UNCHANGED <<pixVars, tileVars, viewVars, urlVars, workVars, palVars, colVars, ddVars, refVars, animVars, gestVars, selVars, frVars>>

VidNext ==
    \/ RenderFrame
    \/ OnStop
    \/ CompleteTimeout
    \/ HandleCancel
    \/ Unmount

SpecVideo == VidInit /\ [][VidNext]_vars

-----------------------------------------------------------------------------
(* Double-double arithmetic (utils/doubleDouble): fromNumber, toNumber,     *)
(* twoSum, quickTwoSum, add.  A double is modelled by a binary format with  *)
(* FloatBits significand bits and exponents 0 .. MaxExp, rounding to        *)
(* nearest (ties to even), with infinities and NaN as IEEE 754 has them;    *)
(* finite values are counted in units of the smallest one.                  *)

\* the significand bits of the format
FloatBits == 3

\* the largest exponent of the format
MaxExp == 2

RECURSIVE Pow2(_)
Pow2(k) == IF k = 0 THEN 1 ELSE 2 * Pow2(k - 1)

\* the largest finite value
MaxFinite == (Pow2(FloatBits) - 1) * Pow2(MaxExp)

Fin(v) == [kind |-> "fin", v |-> v]
Infinity(sign) == [kind |-> "inf", v |-> sign]
FNaN == [kind |-> "nan", v |-> 0]

\* the spacing of the format's values around the magnitude n
RECURSIVE Ulp(_)
Ulp(n) == IF n < Pow2(FloatBits) THEN 1 ELSE 2 * Ulp(n \div 2)

\* the magnitude n rounded to FloatBits bits, ties to even
RoundMag(n) ==
    LET q    == Ulp(n)
        m    == n \div q
        down == m * q
        rem  == n - down
    IN  IF 2 * rem < q THEN down
        ELSE IF 2 * rem > q THEN down + q
        ELSE IF m % 2 = 0 THEN down ELSE down + q

\* the double nearest to the exact value n; beyond the largest finite value
\* the result is an infinity
RoundToDouble(n) ==
    LET mag == RoundMag(IF n < 0 THEN -n ELSE n)
    IN  IF mag > MaxFinite THEN Infinity(IF n < 0 THEN -1 ELSE 1)
        ELSE Fin(IF n < 0 THEN -mag ELSE mag)

\* x + y of two doubles
FAdd(x, y) ==
    IF x.kind = "nan" \/ y.kind = "nan" THEN FNaN
    ELSE IF x.kind = "inf" /\ y.kind = "inf"
    THEN IF x.v = y.v THEN x ELSE FNaN
    ELSE IF x.kind = "inf" THEN x
    ELSE IF y.kind = "inf" THEN y
    ELSE RoundToDouble(x.v + y.v)

\* -x
FNeg(x) == IF x.kind = "nan" THEN FNaN ELSE [x EXCEPT !.v = -x.v]

\* x - y
FSub(x, y) == FAdd(x, FNeg(y))

DoublePair(hi, lo) == [hi |-> hi, lo |-> lo]

fromNumber(x) == DoublePair(x, Fin(0))

toNumber(x) == FAdd(x.hi, x.lo)

twoSum(a, b) ==
    LET s == FAdd(a, b)
        v == FSub(s, a)
        e == FAdd(FSub(a, FSub(s, v)), FSub(b, v))
    IN  DoublePair(s, e)

quickTwoSum(a, b) ==
    LET s == FAdd(a, b)
        e == FSub(b, FSub(s, a))
    IN  DoublePair(s, e)

add(a, b) ==
    LET s  == twoSum(a.hi, b.hi)
        t  == twoSum(a.lo, b.lo)
        s2 == FAdd(s.lo, t.hi)
        r  == quickTwoSum(s.hi, s2)
        lo == FAdd(r.lo, t.lo)
    IN  quickTwoSum(r.hi, lo)

\* the finite doubles of the format
Doubles ==
    {Fin(sign * m * Pow2(e)) :
        sign \in {-1, 1}, m \in 0..(Pow2(FloatBits) - 1), e \in 0..MaxExp}

DdInit ==
    /\ ddA \in Doubles
    /\ ddB \in Doubles
    /\ ddSum = <<>>
    /\ PixIdle
    /\ TileIdle
    /\ ViewIdle
    /\ UrlIdle
    /\ WorkIdle
    /\ PalIdle
    /\ ColIdle
    /\ VidIdle
    /\ RefIdle
    /\ AnimIdle
    /\ GestIdle
    /\ SelIdle
    /\ FrIdle

\* toNumber(add(fromNumber(a), fromNumber(b)))
AddRoundTrip ==
    /\ ddSum = <<>>
    /\ ddSum' = <<toNumber(add(fromNumber(ddA), fromNumber(ddB)))>>
    /\ UNCHANGED <<ddA, ddB>>
    /\ UNCHANGED <<pixVars, tileVars, viewVars, urlVars, workVars, palVars, colVars, vidVars, refVars, animVars, gestVars, selVars, frVars>>

DdNext == AddRoundTrip

SpecDouble == DdInit /\ [][DdNext]_vars

-----------------------------------------------------------------------------
(* findBestReference on a single view: the inputs are drawn in Init.        *)

\* the largest maxIterations searched with
RefMaxIter == 5

\* the centres searched from: whole-number points, and two points that
\* escape at index 4
RefCenters ==
    {Cx(RInt(x), RInt(y)) : x \in -3..3, y \in -3..3}
        \cup {Cx(Rat(-1, 2), RInt(1)), Cx(Rat(-1, 2), RInt(-1))}

\* viewWidth and viewHeight: the probes at 1/4 and 1/10 of them are whole
RefViewSizes == {<<RInt(20), RInt(20)>>, <<RInt(40), RInt(20)>>}

RefInit ==
    /\ fbrInput \in {[centerX |-> c.re, centerY |-> c.im, viewWidth |-> size[1],
                      viewHeight |-> size[2], maxIterations |-> m] :
                        c \in RefCenters, size \in RefViewSizes, m \in 1..RefMaxIter}
    /\ fbrOutput = <<>>
    /\ PixIdle
    /\ TileIdle
    /\ ViewIdle
    /\ UrlIdle
    /\ WorkIdle
    /\ PalIdle
    /\ ColIdle
    /\ VidIdle
    /\ DdIdle
    /\ AnimIdle
    /\ GestIdle
    /\ SelIdle
    /\ FrIdle

\* render: const bestRef = findBestReference(...)
FindReference ==
    /\ fbrOutput = <<>>
    /\ fbrOutput' = <<findBestReference(fbrInput.centerX, fbrInput.centerY,
                                        fbrInput.viewWidth, fbrInput.viewHeight,
                                        fbrInput.maxIterations)>>
    /\ UNCHANGED fbrInput
    /\ UNCHANGED <<pixVars, tileVars, viewVars, urlVars, workVars, palVars, colVars, vidVars, ddVars, animVars, gestVars, selVars, frVars>>

RefNext == FindReference

SpecReference == RefInit /\ [][RefNext]_vars

-----------------------------------------------------------------------------
(* An animated transition computed in doubles: animateTo and its frame      *)
(* callback, with the arithmetic of the double format above.  The value     *)
(* 1.0 is FloatOne units of the smallest value.                             *)

FloatOne == Pow2(FloatBits - 1)

\* the double nearest to the exact quotient n / d of two magnitudes, d > 0
RoundQuotient(n, d) ==
    LET q    == Ulp(n \div d)
        m    == n \div (d * q)
        down == m * q
        rem  == n - down * d
        mag  == IF 2 * rem < q * d THEN down
                ELSE IF 2 * rem > q * d THEN down + q
                ELSE IF m % 2 = 0 THEN down ELSE down + q
    IN  IF mag > MaxFinite THEN Infinity(1) ELSE Fin(mag)

Sign(x) == IF x.v < 0 THEN -1 ELSE 1

\* x * y of two doubles
FMul(x, y) ==
    IF x.kind = "nan" \/ y.kind = "nan" THEN FNaN
    ELSE IF x.kind = "inf" \/ y.kind = "inf"
    THEN IF x.v = 0 \/ y.v = 0 THEN FNaN ELSE Infinity(Sign(x) * Sign(y))
    ELSE LET r == RoundQuotient(Abs(x.v) * Abs(y.v), FloatOne)
         IN  [r EXCEPT !.v = Sign(x) * Sign(y) * r.v]

\* x / y of two doubles
FDiv(x, y) ==
    IF x.kind = "nan" \/ y.kind = "nan" THEN FNaN
    ELSE IF x.kind = "inf"
    THEN IF y.kind = "inf" THEN FNaN ELSE Infinity(Sign(x) * Sign(y))
    ELSE IF y.kind = "inf" THEN Fin(0)
    ELSE IF y.v = 0
    THEN IF x.v = 0 THEN FNaN ELSE Infinity(Sign(x))
    ELSE LET r == RoundQuotient(Abs(x.v) * FloatOne, Abs(y.v))
         IN  [r EXCEPT !.v = Sign(x) * Sign(y) * r.v]

\* Math.pow(b, e) for e = 0 and e = 1
FPow(b, e) == IF e = 0 THEN Fin(FloatOne) ELSE b

\* the view of a frame for eased = 0 or eased = 1
FrameViewInDoubles(startView, target, eased) ==
    LET e == Fin(eased * FloatOne)
    IN  [centerX |-> FAdd(startView.centerX,
                          FMul(FSub(target.centerX, startView.centerX), e)),
         centerY |-> FAdd(startView.centerY,
                          FMul(FSub(target.centerY, startView.centerY), e)),
         zoom    |-> FMul(startView.zoom,
                          FPow(FDiv(target.zoom, startView.zoom), eased))]

\* the views transitions start from and lead to: centres and zooms in units
\* of the smallest double
AnimViews ==
    {[centerX |-> Fin(x), centerY |-> Fin(y), zoom |-> Fin(z)] :
        x \in {-1, 0, 10}, y \in {0, FloatOne}, z \in {FloatOne, FloatOne + 1, 2 * FloatOne - 1}}

AnimInit ==
    /\ animView \in AnimViews
    /\ animIsAnimating = FALSE
    /\ animPending = <<>>
    /\ PixIdle
    /\ TileIdle
    /\ ViewIdle
    /\ UrlIdle
    /\ WorkIdle
    /\ PalIdle
    /\ ColIdle
    /\ VidIdle
    /\ DdIdle
    /\ RefIdle
    /\ GestIdle
    /\ SelIdle
    /\ FrIdle

\* animateTo(target): the frame callback replaces a pending one
AnimateTo(target) ==
    /\ animIsAnimating' = TRUE
    /\ animPending' = <<[startView |-> animView, target |-> target]>>
    /\ UNCHANGED animView
    /\ UNCHANGED <<pixVars, tileVars, viewVars, urlVars, workVars, palVars, colVars, vidVars, ddVars, refVars, gestVars, selVars, frVars>>

\* animate(time): a frame with progress 0 (eased 0) or progress 1 (eased 1)
AnimFrame(eased) ==
    /\ animPending # <<>>
    /\ animView' = FrameViewInDoubles(animPending[1].startView,
                                      animPending[1].target, eased)
    /\ IF eased < 1
       THEN UNCHANGED <<animPending, animIsAnimating>>
       ELSE /\ animPending' = <<>>
            /\ animIsAnimating' = FALSE
    /\ UNCHANGED <<pixVars, tileVars, viewVars, urlVars, workVars, palVars, colVars, vidVars, ddVars, refVars, gestVars, selVars, frVars>>

AnimNext ==
    \/ \E target \in AnimViews : AnimateTo(target)
    \/ \E eased \in {0, 1} : AnimFrame(eased)

SpecAnimation == AnimInit /\ [][AnimNext]_vars

-----------------------------------------------------------------------------
(* Gestures: the mouse and touch handlers of MandelbrotCanvas and the       *)
(* startDrag / stopDrag of the hook.  The view operations a handler calls   *)
(* (pan, zoomAt, zoomAtInstant) are recorded in hookCalls; their effect on  *)
(* the view is the view model's.                                            *)

\* the most fingers on the screen
MaxTouches == 3

\* isDraggingRef.current after the calls
FlagAfter(calls, flag) ==
    IF \E i \in DOMAIN calls : calls[i] \in {"startDrag", "stopDrag"}
    THEN LET last == CHOOSE i \in DOMAIN calls :
                        /\ calls[i] \in {"startDrag", "stopDrag"}
                        /\ \A j \in DOMAIN calls :
                              calls[j] \in {"startDrag", "stopDrag"} => j <= i
         IN  calls[last] = "startDrag"
    ELSE flag

\* the handler called the operations calls of the hook
Calls(calls) ==
    /\ hookCalls' = calls
    /\ dragFlag' = FlagAfter(calls, dragFlag)

GestInit ==
    /\ GestIdle
    /\ PixIdle
    /\ TileIdle
    /\ ViewIdle
    /\ UrlIdle
    /\ WorkIdle
    /\ PalIdle
    /\ ColIdle
    /\ VidIdle
    /\ DdIdle
    /\ RefIdle
    /\ AnimIdle
    /\ SelIdle
    /\ FrIdle

\* handleTouchStart: added fingers touch the screen; quick tells whether the
\* last tap is less than 300 ms ago
handleTouchStart(added, quick) ==
    /\ touchCount + added <= MaxTouches
    /\ touchCount' = touchCount + added
    /\ IF touchCount' = 1
       THEN /\ isTouchDragging' = FALSE
            /\ IF tapArmed /\ quick
               THEN tapArmed' = FALSE /\ Calls(<<"zoomAt">>)
               ELSE tapArmed' = TRUE /\ Calls(<<>>)
            /\ UNCHANGED pinching
       ELSE IF touchCount' = 2
       THEN /\ pinching' = TRUE
            /\ Calls(<<"startDrag">>)
            /\ UNCHANGED <<isTouchDragging, tapArmed>>
       ELSE /\ Calls(<<>>)
            /\ UNCHANGED <<isTouchDragging, pinching, tapArmed>>
    /\ UNCHANGED <<buttonDown, dragStart, mouseDragging>>
    /\ UNCHANGED <<pixVars, tileVars, viewVars, urlVars, workVars, palVars, colVars, vidVars, ddVars, refVars, animVars, selVars, frVars>>

\* handleTouchMove: far tells whether the finger moved more than 5 pixels
handleTouchMove(far) ==
    /\ touchCount > 0
    /\ IF touchCount = 1 /\ ~pinching
       THEN /\ isTouchDragging' = (isTouchDragging \/ far)
            /\ Calls((IF ~isTouchDragging /\ far THEN <<"startDrag">> ELSE <<>>)
                     \o (IF isTouchDragging' THEN <<"pan">> ELSE <<>>))
       ELSE IF touchCount = 2
       THEN /\ Calls(<<"zoomAtInstant">>)
            /\ UNCHANGED isTouchDragging
       ELSE /\ Calls(<<>>)
            /\ UNCHANGED isTouchDragging
    /\ UNCHANGED <<touchCount, pinching, tapArmed, buttonDown, dragStart, mouseDragging>>
    /\ UNCHANGED <<pixVars, tileVars, viewVars, urlVars, workVars, palVars, colVars, vidVars, ddVars, refVars, animVars, selVars, frVars>>

\* handleTouchEnd: lifted fingers leave the screen
handleTouchEnd(lifted) ==
    /\ lifted <= touchCount
    /\ touchCount' = touchCount - lifted
    /\ IF touchCount' = 0
       THEN /\ Calls(IF isTouchDragging THEN <<"stopDrag">> ELSE <<>>)
            /\ isTouchDragging' = FALSE
            /\ pinching' = FALSE
       ELSE IF touchCount' = 1
       THEN /\ pinching' = FALSE
            /\ Calls(<<"stopDrag">>)
            /\ UNCHANGED isTouchDragging
       ELSE /\ Calls(<<>>)
            /\ UNCHANGED <<isTouchDragging, pinching>>
    /\ UNCHANGED <<tapArmed, buttonDown, dragStart, mouseDragging>>
    /\ UNCHANGED <<pixVars, tileVars, viewVars, urlVars, workVars, palVars, colVars, vidVars, ddVars, refVars, animVars, selVars, frVars>>

\* handleMouseDown with the left button
handleMouseDown ==
    /\ ~buttonDown
    /\ buttonDown' = TRUE
    /\ dragStart' = TRUE
    /\ Calls(<<>>)
    /\ UNCHANGED <<touchCount, isTouchDragging, pinching, tapArmed, mouseDragging>>
    /\ UNCHANGED <<pixVars, tileVars, viewVars, urlVars, workVars, palVars, colVars, vidVars, ddVars, refVars, animVars, selVars, frVars>>

\* handleMouseMove: far tells whether the pointer moved more than 3 pixels
handleMouseMove(far) ==
    /\ IF dragStart
       THEN /\ mouseDragging' = (mouseDragging \/ far)
            /\ Calls((IF ~mouseDragging /\ far THEN <<"startDrag">> ELSE <<>>)
                     \o (IF mouseDragging THEN <<"pan">> ELSE <<>>))
       ELSE /\ Calls(<<>>)
            /\ UNCHANGED mouseDragging
    /\ UNCHANGED <<touchCount, isTouchDragging, pinching, tapArmed, buttonDown, dragStart>>
    /\ UNCHANGED <<pixVars, tileVars, viewVars, urlVars, workVars, palVars, colVars, vidVars, ddVars, refVars, animVars, selVars, frVars>>

\* handleMouseUp
handleMouseUp ==
    /\ buttonDown
    /\ buttonDown' = FALSE
    /\ Calls((IF ~mouseDragging /\ dragStart THEN <<"zoomAt">> ELSE <<>>)
             \o (IF mouseDragging THEN <<"stopDrag">> ELSE <<>>))
    /\ dragStart' = FALSE
    /\ mouseDragging' = FALSE
    /\ UNCHANGED <<touchCount, isTouchDragging, pinching, tapArmed>>
    /\ UNCHANGED <<pixVars, tileVars, viewVars, urlVars, workVars, palVars, colVars, vidVars, ddVars, refVars, animVars, selVars, frVars>>

\* handleMouseLeave: the pointer leaves the container, the button as it is
handleMouseLeave ==
    /\ Calls(IF mouseDragging THEN <<"stopDrag">> ELSE <<>>)
    /\ dragStart' = FALSE
    /\ mouseDragging' = FALSE
    /\ UNCHANGED <<touchCount, isTouchDragging, pinching, tapArmed, buttonDown>>
    /\ UNCHANGED <<pixVars, tileVars, viewVars, urlVars, workVars, palVars, colVars, vidVars, ddVars, refVars, animVars, selVars, frVars>>

GestNext ==
    \/ \E added \in {1, 2}, quick \in BOOLEAN : handleTouchStart(added, quick)
    \/ \E far \in BOOLEAN : handleTouchMove(far)
    \/ \E lifted \in {1, 2} : handleTouchEnd(lifted)
    \/ handleMouseDown
    \/ \E far \in BOOLEAN : handleMouseMove(far)
    \/ handleMouseUp
    \/ handleMouseLeave

SpecGesture == GestInit /\ [][GestNext]_vars

-----------------------------------------------------------------------------
(* Selecting sets: handleFractalSetChange writes the set to the hash with   *)
(* updateFractalSetInUrl and navigates to the family's view; the last frame *)
(* of that transition writes the view to the hash with updateUrl.           *)

\* updateFractalSetInUrl: the parameters of the hash after it
updateFractalSetInUrl(params, set) ==
    LET cleared   == [key \in DOMAIN params |->
                         IF key \in {"set", "j", "jr", "ji"} THEN <<>>
                         ELSE params[key]]
        newParams == fractalSetToUrlParams(set)
    IN  [key \in DOMAIN params |->
            IF key \in DOMAIN newParams THEN <<newParams[key]>> ELSE cleared[key]]

\* updateUrl(view): the parameters of the hash after it
updateUrl(params, view) ==
    [params EXCEPT !.x = <<NumberToString(view.centerX)>>,
                   !.y = <<NumberToString(view.centerY)>>,
                   !.z = <<NumberToString(view.zoom)>>]

\* the page is opened without a hash or with the hash of a set, and
\* getFractalSetFromUrl initialises the fractalSet state
SelInit ==
    /\ selHash \in {URLSearchParams(fractalSetToUrlParams(s)) : s \in FractalSets}
    /\ selSet = <<fractalSetFromUrlParams(selHash)>>
    /\ selPending = <<>>
    /\ PixIdle
    /\ TileIdle
    /\ ViewIdle
    /\ UrlIdle
    /\ WorkIdle
    /\ PalIdle
    /\ ColIdle
    /\ VidIdle
    /\ DdIdle
    /\ RefIdle
    /\ AnimIdle
    /\ GestIdle
    /\ FrIdle

\* handleFractalSetChange(newSet)
SelectFractalSet(newSet) ==
    /\ selSet' = <<newSet>>
    /\ selHash' = updateFractalSetInUrl(selHash, newSet)
    /\ selPending' = <<FamilyView(newSet.type)>>
    /\ UNCHANGED <<pixVars, tileVars, viewVars, urlVars, workVars, palVars, colVars, vidVars, ddVars, refVars, animVars, gestVars, frVars>>

\* the last frame of the transition started by navigateTo
NavigationSettles ==
    /\ selPending # <<>>
    /\ selHash' = updateUrl(selHash, selPending[1])
    /\ selPending' = <<>>
    /\ UNCHANGED selSet
    /\ UNCHANGED <<pixVars, tileVars, viewVars, urlVars, workVars, palVars, colVars, vidVars, ddVars, refVars, animVars, gestVars, frVars>>

SelNext ==
    \/ \E newSet \in FractalSets : SelectFractalSet(newSet)
    \/ NavigationSettles

SpecSelect == SelInit /\ [][SelNext]_vars

-----------------------------------------------------------------------------
(* The reference of a settled view computed in doubles: findBestReference,  *)
(* testEscape and the reuse test of render with the arithmetic of the       *)
(* double format above (1.0 is FloatOne units).  Iteration counts are       *)
(* whole numbers and exact.                                                 *)

\* the largest maxIterations of the renders in doubles
FrMaxIter == 3

\* the double nearest to n / d, d > 0
ToDouble(n, d) ==
    LET r == RoundQuotient(Abs(n) * FloatOne, d)
    IN  IF n < 0 THEN FNeg(r) ELSE r

\* Math.abs(x)
FAbs(x) == IF x.kind = "nan" THEN FNaN ELSE [x EXCEPT !.v = Abs(x.v)]

\* x < y of two doubles
FLess(x, y) ==
    LET ord(d) == IF d.kind = "inf" THEN d.v * (MaxFinite + 1) ELSE d.v
    IN  x.kind # "nan" /\ y.kind # "nan" /\ ord(x) < ord(y)

\* testEscape(x, y, maxIterations) from iteration i with z = zr + zi i
RECURSIVE testEscapeInDoublesLoop(_, _, _, _, _, _)
testEscapeInDoublesLoop(i, zr, zi, x, y, maxIterations) ==
    IF i >= maxIterations THEN maxIterations
    ELSE CHOOSE r \in
            {IF FLess(ToDouble(4, 1), FAdd(sq[1], sq[2])) THEN i
             ELSE CHOOSE q \in
                     {testEscapeInDoublesLoop(i + 1, z[1], z[2], x, y, maxIterations) :
                         z \in {<<FAdd(FSub(sq[1], sq[2]), x),
                                  FAdd(FMul(FMul(ToDouble(2, 1), zr), zi), y)>>}} : TRUE :
                sq \in {<<FMul(zr, zr), FMul(zi, zi)>>}} : TRUE

testEscapeInDoubles(x, y, maxIterations) ==
    testEscapeInDoublesLoop(0, Fin(0), Fin(0), x, y, maxIterations)

\* searchPoints as doubles
SearchPointsInDoubles ==
    [k \in DOMAIN SearchPoints |->
        <<ToDouble(SearchPoints[k][1].n, SearchPoints[k][1].d),
          ToDouble(SearchPoints[k][2].n, SearchPoints[k][2].d)>>]

\* one search point of findBestReference: the best reference after point k
searchStepInDoubles(k, best, centerX, centerY, viewWidth, viewHeight, maxIterations) ==
    LET testX == FAdd(centerX, FMul(SearchPointsInDoubles[k][1], viewWidth))
        testY == FAdd(centerY, FMul(SearchPointsInDoubles[k][2], viewHeight))
    IN  CHOOSE r \in
            {IF escape > best.escapeIter
             THEN [x |-> testX, y |-> testY, escapeIter |-> escape]
             ELSE best :
                escape \in {testEscapeInDoubles(testX, testY, maxIterations)}} : TRUE

\* the search loop of findBestReference from search point k on
RECURSIVE searchLoopInDoubles(_, _, _, _, _, _, _)
searchLoopInDoubles(k, best, centerX, centerY, viewWidth, viewHeight, maxIterations) ==
    IF k > Len(SearchPointsInDoubles) THEN best
    ELSE CHOOSE r \in
            {IF next # best /\ next.escapeIter >= maxIterations THEN next
             ELSE searchLoopInDoubles(k + 1, next, centerX, centerY, viewWidth,
                                      viewHeight, maxIterations) :
                next \in {searchStepInDoubles(k, best, centerX, centerY, viewWidth,
                                              viewHeight, maxIterations)}} : TRUE

\* findBestReference
findBestReferenceInDoubles(centerX, centerY, viewWidth, viewHeight, maxIterations) ==
    CHOOSE r \in
        {IF 5 * first.escapeIter >= 4 * maxIterations THEN first
         ELSE searchLoopInDoubles(1, first, centerX, centerY, viewWidth,
                                  viewHeight, maxIterations) :
            first \in {[x |-> centerX, y |-> centerY,
                        escapeIter |-> testEscapeInDoubles(centerX, centerY,
                                                           maxIterations)]}} : TRUE

\* viewWidth and viewHeight of render for the view
ViewSizeInDoubles(view) ==
    LET aspectRatio == FDiv(ToDouble(CanvasRect.width, 1), ToDouble(CanvasRect.height, 1))
        viewWidth   == FDiv(ToDouble(4, 1), view.zoom)
    IN  [viewWidth |-> viewWidth, viewHeight |-> FDiv(viewWidth, aspectRatio)]

\* refInView of render
RefInViewInDoubles(lastRef, view) ==
    LET size == ViewSizeInDoubles(view)
    IN  /\ lastRef # <<>>
        /\ FLess(FAbs(FSub(lastRef[1].refX, view.centerX)),
                 FMul(size.viewWidth, ToDouble(2, 5)))
        /\ FLess(FAbs(FSub(lastRef[1].refY, view.centerY)),
                 FMul(size.viewHeight, ToDouble(2, 5)))

\* needNewRef of render for a view that is neither animated nor dragged
NeedNewRefInDoubles(lastRef, view) ==
    \/ lastRef = <<>>
    \/ ~RefInViewInDoubles(lastRef, view)
    \/ FLess(FMul(view.zoom, ToDouble(1, 2)),
             FAbs(FSub(lastRef[1].zoom, view.zoom)))

\* lastRefPointRef.current after render(view)
LastRefAfterRender(lastRef, view, maxIterations) ==
    IF NeedNewRefInDoubles(lastRef, view)
    THEN CHOOSE r \in
            {[centerX |-> view.centerX, centerY |-> view.centerY,
              refX |-> bestRef.x, refY |-> bestRef.y,
              escapeIter |-> testEscapeInDoubles(bestRef.x, bestRef.y, maxIterations),
              zoom |-> view.zoom] :
                bestRef \in {findBestReferenceInDoubles(
                                 view.centerX, view.centerY,
                                 ViewSizeInDoubles(view).viewWidth,
                                 ViewSizeInDoubles(view).viewHeight, maxIterations)}} : TRUE
    ELSE lastRef[1]

\* the views rendered: every finite centre on the real axis and near it,
\* zoom 1, 2 and 4
FrViews ==
    {[centerX |-> x, centerY |-> Fin(y), zoom |-> Fin(z * FloatOne)] :
        x \in Doubles, y \in {-FloatOne, -1, 0, 1, FloatOne}, z \in {1, 2, 4}}

FrInit ==
    /\ frStage = "mounted"
    /\ frView \in FrViews
    /\ frLastRef = <<>>
    /\ frRecomputed = FALSE
    /\ PixIdle
    /\ TileIdle
    /\ ViewIdle
    /\ UrlIdle
    /\ WorkIdle
    /\ PalIdle
    /\ ColIdle
    /\ VidIdle
    /\ DdIdle
    /\ RefIdle
    /\ AnimIdle
    /\ GestIdle
    /\ SelIdle

\* render(view) of a settled view: the first render, and the render of the
\* unchanged view again
RenderInDoubles ==
    /\ frStage \in {"mounted", "rendered"}
    /\ frStage' = IF frStage = "mounted" THEN "rendered" ELSE "again"
    /\ frRecomputed' = NeedNewRefInDoubles(frLastRef, frView)
    /\ \E r \in {LastRefAfterRender(frLastRef, frView, FrMaxIter)} : frLastRef' = <<r>>
    /\ UNCHANGED frView
    /\ UNCHANGED <<pixVars, tileVars, viewVars, urlVars, workVars, palVars, colVars, vidVars, ddVars, refVars, animVars, gestVars, selVars>>

FrNext == RenderInDoubles

SpecRefDoubles == FrInit /\ [][FrNext]_vars

-----------------------------------------------------------------------------
(* C1: with a reference orbit that covers maxIter (escapeIter = maxIter),   *)
(* the perturbation evaluation of a Mandelbrot pixel reports the same       *)
(* escaped flag as direct iteration (testEscape) and, when escaped, the     *)
(* same iteration count.                                                    *)
C1_PerturbationAgrees ==
    (pixStage = "shaded" /\ pixSetType = 0 /\ refOrbit.escapeIter = pixMaxIter)
        => /\ pixResult.escaped = (testEscape(PixelCoord, pixMaxIter) < pixMaxIter)
           /\ pixResult.escaped =>
                 pixResult.iteration = testEscape(PixelCoord, pixMaxIter)

\* a pixel away from the reference that escapes after several perturbation steps
C1_Witness ==
    /\ pixStage = "shaded" /\ pixSetType = 0
    /\ refOrbit.escapeIter = pixMaxIter
    /\ refPoint # PixelCoord
    /\ refPoint # CZero
    /\ pixResult.escaped
    /\ pixResult.iteration = 3

(* C2: whatever the reference (also one whose orbit escapes before maxIter, *)
(* so that phase 2 takes over), the shader reports the same escaped flag    *)
(* and the same iteration count as direct iteration of the pixel.           *)
C2_PoorReferenceSameResult ==
    (pixStage = "shaded" /\ pixSetType = 0)
        => /\ pixResult.escaped = (testEscape(PixelCoord, pixMaxIter) < pixMaxIter)
           /\ pixResult.iteration = testEscape(PixelCoord, pixMaxIter)

(* C3: zoom round trip: after zoomAt(p, true) on a settled view, the end of  *)
(* its transition, zoomAt(p, false) at the same screen point and the end of *)
(* that transition, the view is the view before the zoom-in: zoom, centerX  *)
(* and centerY are all restored.                                            *)
C3_ZoomRoundTrip ==
    (roundTrip # <<>> /\ roundTrip[1].stage = "outDone")
        => currentView = roundTrip[1].pre

(* C4: ViewState.zoom > 0 in every reachable state.                         *)
C4_ZoomPositive ==
    RLess(RInt(0), currentView.zoom)

(* C9: navigateTo jumps and the view stays: as long as no view operation    *)
(* was called after navigateTo(x, y, zoom), the view is exactly {x, y, zoom}*)
(* (no animation frame moves it).                                           *)
C9_NavigateToStays ==
    lastNav # <<>> => currentView = lastNav[1]

(* C10: reset() animates to the default view of the active set: the target  *)
(* of the transition is the view that selecting the active family navigates *)
(* to.                                                                      *)
C10_ResetToFamilyView ==
    lastReset # <<>> => lastReset[1].target = FamilyView(lastReset[1].set)


-----------------------------------------------------------------------------
(* C5: only the latest render task clears the computing signal.  Every frame *)
(* put on the canvas cleared isComputing exactly when its task id was the    *)
(* most recently issued one, and whenever isComputing is false after a task  *)
(* was issued, the most recently issued task has completed.                  *)
C5_OnlyLatestClears ==
    /\ \A k \in DOMAIN completions :
          completions[k].cleared <=> (completions[k].task = completions[k].latest)
    /\ (taskIdRef > 0 /\ ~isComputing) =>
          \E k \in DOMAIN completions : completions[k].task = taskIdRef - 1

\* a superseded task completed without clearing the signal, and the signal
\* was cleared later by the latest task
C5_Witness ==
    /\ taskIdRef = 2
    /\ ~isComputing
    /\ Len(completions) = 2
    /\ completions[1] = [task |-> 0, latest |-> 1, cleared |-> FALSE]
    /\ completions[2].cleared

(* C6: every render task completes: once every band dispatched for a task   *)
(* has returned (none of its messages is under way any more), the task has  *)
(* left the pending registry.                                               *)
C6_EveryTaskCompletes ==
    \A t \in DOMAIN pendingTasks : InFlight(t) # {}

\* the rows of band b
BandRows(b) == b.startRow..(b.endRow - 1)

\* the bands of a dispatched task are well formed, disjoint, and cover the rows
BandsPartition(d) ==
    /\ \A b \in d.bands : b.startRow < b.endRow /\ b.endRow <= d.height
    /\ \A b1, b2 \in d.bands :
          b1 # b2 => BandRows(b1) \cap BandRows(b2) = {}
    /\ \A row \in 0..(d.height - 1) :
          Cardinality({b \in d.bands : row \in BandRows(b)}) = 1

\* every result under way carries width * (endRow - startRow) counts
ResponsesSized ==
    \A i \in DOMAIN outbox : \A k \in DOMAIN outbox[i] :
        LET e == outbox[i][k]
        IN  Len(e.iterations) = dispatched[e.taskId].width * (e.endRow - e.startRow)

-----------------------------------------------------------------------------
(* C11: recomputation is triggered once interaction settles: the step on    *)
(* which a transition finishes or a drag ends, leaving the view neither     *)
(* animating nor dragged (and no initial render queued), leaves the         *)
(* reference a render of the settled view with both flags clear leaves: a   *)
(* new reference when the cached one fails the validity test.               *)
C11_RecomputeOnSettle ==
    [][((isAnimating /\ ~isAnimating') \/ (isDragging /\ ~isDragging'))
       /\ ~isAnimating' /\ ~isDragging' /\ ~mountFrame'
          => /\ lastRefPoint' = RenderOutcome(currentView', FALSE, FALSE).lastRef
             /\ refOrbitTex' = RenderOutcome(currentView', FALSE, FALSE).tex]_vars

(* C12: while the view is animating or being dragged the reference is never *)
(* recomputed: every step taken while a transition is under way (its final  *)
(* frame included) or inside a drag (stopDrag excluded) leaves a cached     *)
(* reference point and the orbit texture unchanged.                         *)
C12_NoRecomputeWhileMoving ==
    [][(lastRefPoint # <<>> /\ (isAnimating \/ (isDragging /\ isDragging')))
          => UNCHANGED <<lastRefPoint, refOrbitTex>>]_vars

-----------------------------------------------------------------------------
(* C13: FractalSet serialization round-trips: reading back the parameters   *)
(* fractalSetToUrlParams wrote for a set gives a set of the same type with  *)
(* the same parameters.                                                     *)
C13_SetRoundTrip ==
    (urlStage = "parsed" /\ urlSet # <<>>) => urlParsed[1].set = urlSet[1]

\* a multibrot with the custom power 2.5 went through pow=2.5 and came back
C13_Witness ==
    /\ urlStage = "parsed"
    /\ urlSet = <<[type |-> "multibrot", power |-> Rat(5, 2)]>>
    /\ urlParams.pow = <<<<"2", ".", "5">>>>
    /\ urlParams.p = <<>>
    /\ urlParsed[1].set.power = Rat(5, 2)

\* the characters a decimal literal is made of
LiteralChars == {"-", "+", "."}

\* the text is a number as a whole
Numeric(s) ==
    /\ parseFloat(s) # NaN
    /\ \A i \in DOMAIN s : IsDigit(s[i]) \/ s[i] \in LiteralChars

\* the hash with every malformed field removed: a numeric field whose text is
\* no number, a set, j or p whose id is unknown
Sanitized(params) ==
    [key \in DOMAIN params |->
        IF params[key] = <<>> THEN <<>>
        ELSE IF key \in {"jr", "ji", "pow", "x", "y", "z"}
        THEN IF Numeric(params[key][1]) THEN params[key] ELSE <<>>
        ELSE IF key = "set"
        THEN IF params[key][1] \in {"ship", "tricorn", "multi", "julia"}
             THEN params[key] ELSE <<>>
        ELSE IF key = "j"
        THEN IF getJuliaPresetById(params[key][1]) # <<>> THEN params[key] ELSE <<>>
        ELSE IF getMultibrotPresetById(params[key][1]) # <<>> THEN params[key]
        ELSE <<>>]

(* C14: malformed serialized state is treated as absent: what is read from  *)
(* a hash is what is read from the same hash without its malformed fields   *)
(* (a missing or non-numeric x, y or z gives the whole default view, a      *)
(* malformed set field gives that field's default), and no parameter of the *)
(* set read is NaN.                                                         *)
C14_MalformedIsAbsent ==
    (urlStage = "parsed" /\ urlSet = <<>>)
        => /\ urlParsed[1].set = fractalSetFromUrlParams(Sanitized(urlParams))
           /\ urlParsed[1].view = InitialView(HashOf(Sanitized(urlParams)))
           /\ \A f \in DOMAIN urlParsed[1].set \ {"type"} :
                 urlParsed[1].set[f] # NaN

-----------------------------------------------------------------------------
\* the plain loop: z <- z^2 + c from 0, while |z|^2 <= 4 and the budget lasts;
\* its count is the number of steps taken
RECURSIVE PlainLoop(_, _, _, _)
PlainLoop(z, c, iter, maxIterations) ==
    IF ~(RLeq(Mag2(z), RInt(BailoutSq)) /\ iter < maxIterations) THEN iter
    ELSE PlainLoop(MandelStep(z, c), c, iter + 1, maxIterations)

\* q (q + (x - 1/4)) <= y^2 / 4 with q = (x - 1/4)^2 + y^2
InCardioid(c) ==
    LET xq == RSub(c.re, Rat(1, 4))
        q  == RAdd(RMul(xq, xq), RMul(c.im, c.im))
    IN  RLeq(RMul(q, RAdd(q, xq)), RMul(Rat(1, 4), RMul(c.im, c.im)))

\* (x + 1)^2 + y^2 <= 1/16
InBulb(c) ==
    RLeq(RAdd(RMul(RAdd(c.re, RInt(1)), RAdd(c.re, RInt(1))), RMul(c.im, c.im)),
         Rat(1, 16))

(* C15: the worker's cardioid test, bulb test and periodicity detection are *)
(* pure optimisations: the count the worker reports for a point equals the  *)
(* count of the plain loop, every point inside the cardioid or the bulb is  *)
(* reported bounded (count = maxIterations), c = (0, 0) is bounded and      *)
(* c = (2, 2) has count 1.                                                  *)
C15_WorkerEqualsPlainLoop ==
    wkOutput # <<>> =>
        /\ wkOutput[1] = PlainLoop(CZero, wkInput.c, 0, wkInput.maxIterations)
        /\ (InCardioid(wkInput.c) \/ InBulb(wkInput.c))
              => wkOutput[1] = wkInput.maxIterations
        /\ wkInput.c = CZero => wkOutput[1] = wkInput.maxIterations
        /\ wkInput.c = Cx(RInt(2), RInt(2)) => wkOutput[1] = 1

\* c = -2, outside the cardioid and the bulb: its orbit 0, -2, 2, 2, ... never
\* leaves |z|^2 <= 4, the period check samples it after 21 steps and meets
\* the sample again on step 22, and the count reported is the budget
C15_Witness ==
    /\ wkInput.c = Cx(RInt(-2), RInt(0))
    /\ wkInput.maxIterations = PeriodMaxIter
    /\ ~InCardioid(wkInput.c) /\ ~InBulb(wkInput.c)
    /\ wkOutput = <<PeriodMaxIter>>

-----------------------------------------------------------------------------
\* how many times the colour occurs in the array
Occurrences(colors, colour) ==
    Cardinality({i \in DOMAIN colors : colors[i] = colour})

(* C16: palette rotation is a non-mutating cyclic rotation: for the theme   *)
(* and any offset k reached by the arrow keys, the rotated theme's colours  *)
(* are the theme's colours rotated left by k mod 8 (colour i of the result  *)
(* is colour (i + k) mod 8 of the theme), it has the same 8 colours, the    *)
(* colorThemes array is unchanged, and a k that is a multiple of 8 gives    *)
(* the original order.                                                      *)
C16_RotationIsCyclic ==
    LET theme   == CurrentTheme
        rotated == rotatedTheme(theme, colorOffset)
        len     == Len(theme.colors)
    IN  /\ len = 8
        /\ Len(rotated.colors) = 8
        /\ \A i \in 0..(len - 1) :
              rotated.colors[i + 1] = theme.colors[((i + colorOffset) % len) + 1]
        /\ \A i \in DOMAIN theme.colors :
              Occurrences(rotated.colors, theme.colors[i])
                  = Occurrences(theme.colors, theme.colors[i])
        /\ rotated.id = theme.id
        /\ palThemes = ColorThemes
        /\ colorOffset % len = 0 => rotated.colors = theme.colors

\* a negative offset beyond one full turn: nine presses of ArrowLeft on a
\* theme other than the default one, which rotates left by 7
C16_Witness ==
    /\ colorOffset = -9
    /\ palTheme = "noir"
    /\ rotatedTheme(CurrentTheme, colorOffset).colors[1] = CurrentTheme.colors[8]
    /\ rotatedTheme(CurrentTheme, colorOffset).colors # CurrentTheme.colors

-----------------------------------------------------------------------------
(* C17: bounded points map to black: on the CPU path every pixel whose      *)
(* count equals maxIterations is written as RGB (0, 0, 0) with alpha 255,   *)
(* and in the shader every pixel that ends with escaped = false is black    *)
(* whatever its iteration count.                                            *)
C17_BoundedIsBlack ==
    /\ colImageData # <<>> =>
          \A px \in 0..(colInput.width - 1) :
              colInput.iterations[px + 1] = colInput.maxIterations
                  => /\ colImageData[1][px * 4] = 0
                     /\ colImageData[1][px * 4 + 1] = 0
                     /\ colImageData[1][px * 4 + 2] = 0
                     /\ colImageData[1][px * 4 + 3] = 255
    /\ (fragColor # <<>> /\ ~fragInput.escaped) => fragColor = <<<<0, 0, 0, 1>>>>

\* a row whose first pixel escaped and was given a gradient colour and whose
\* second pixel is bounded, next to a fragment that did not escape and ended
\* below the budget
C17_Witness ==
    /\ colImageData # <<>>
    /\ colInput.width = 2
    /\ colInput.maxIterations = 3
    /\ colInput.iterations = <<1, 3>>
    /\ colImageData[1][0] = 255
    /\ colImageData[1][4] = 0
    /\ fragColor # <<>>
    /\ ~fragInput.escaped
    /\ fragInput.iteration < fragInput.maxIterations

-----------------------------------------------------------------------------
(* C18: once the cancellation flag is set (Cancel button or unmount), no    *)
(* further frame is rendered, the render loop ends by stopping the          *)
(* recorder, no video file is downloaded and onComplete is not called.      *)
C18_CancelStopsExport ==
    [][cancelledRef
          => /\ framesRendered' = framesRendered
             /\ (frameRequested /\ ~frameRequested' => recorderState' = "stopping")
             /\ downloads' = downloads
             /\ completeCalls' = completeCalls]_vars

-----------------------------------------------------------------------------
(* C19: the frame is a function of the explicit inputs alone: for the view  *)
(* on screen, every pixel's (escaped, iteration) under the reference that   *)
(* is cached from the history is the same as under the reference a render   *)
(* of that view computes with nothing cached and no flag set.               *)

\* v_uv at the centres of the pixels of the canvas
FragmentCoords ==
    {<<Rat(2 * i + 1, 2 * CanvasRect.width), Rat(2 * j + 1, 2 * CanvasRect.height)>> :
        i \in 0..(CanvasRect.width - 1), j \in 0..(CanvasRect.height - 1)}

\* what gl.drawArrays leaves at the fragment uv for the view, the reference
\* record ref and the orbit texture tex: (escaped, iteration)
DrawnPixel(view, uv, ref, tex, set) ==
    LET viewWidth   == RDiv(RInt(4), view.zoom)
        viewHeight  == RDiv(viewWidth, Rat(CanvasRect.width, CanvasRect.height))
        pixelOffset == Cx(RMul(RSub(uv[1], Rat(1, 2)), viewWidth),
                          RMul(RSub(uv[2], Rat(1, 2)), viewHeight))
        refOffset   == Cx(RSub(ref.refX, view.centerX), RSub(ref.refY, view.centerY))
    IN  CHOOSE px \in
            {<<r.escaped, r.iteration>> :
                r \in {ShaderMain(Cx(view.centerX, view.centerY), pixelOffset,
                                  refOffset, tex, ref.escapeIter, ViewMaxIter,
                                  IF set = "julia" THEN 1 ELSE 0)}} : TRUE

\* the reference of a render of the view with nothing cached
FreshReference(view) ==
    LET viewWidth  == RDiv(RInt(4), view.zoom)
        viewHeight == RDiv(viewWidth, Rat(CanvasRect.width, CanvasRect.height))
    IN  NewReference(view, viewWidth, viewHeight)

C19_FrameDependsOnViewOnly ==
    (~mountFrame /\ lastRefPoint # <<>> /\ refOrbitTex # <<>>)
        => \E fresh \in {FreshReference(currentView)} :
              \A uv \in FragmentCoords :
                  DrawnPixel(currentView, uv, lastRefPoint[1], refOrbitTex, fractalSet)
                    = DrawnPixel(currentView, uv, fresh.lastRef[1], fresh.tex, fractalSet)

-----------------------------------------------------------------------------
(* C20: the persisted view is the current view once interaction settled:    *)
(* a step that moves the view, writes the hash or ends the last pending     *)
(* frame or timer, and leaves no animation running and no debounce timer    *)
(* pending, leaves the x, y, z of the hash equal to the current view.       *)
C20_UrlMatchesSettledView ==
    [][(/\ pendingFrame' = <<>>
        /\ ~isAnimating'
        /\ urlUpdateTimeout' = <<>>
        /\ \/ currentView' # currentView
           \/ urlHash' # urlHash
           \/ pendingFrame # <<>>
           \/ urlUpdateTimeout # <<>>)
          => urlHash' = UrlOf(currentView')]_vars

-----------------------------------------------------------------------------
(* C21: the round-trip law of double-double addition: for all doubles a and *)
(* b, toNumber(add(fromNumber(a), fromNumber(b))) is the double a + b.      *)
C21_AddRoundTrip ==
    ddSum # <<>> => ddSum[1] = FAdd(ddA, ddB)

-----------------------------------------------------------------------------
(* C22: computeReferenceOrbit records Z_0 = 0 and Z_(i+1) = Z_i^2 + ref up  *)
(* to the escape; at the first index k with |Z_k|^2 above the bailout it    *)
(* records escapeIter = k and fills the slots k+1 .. maxIter-1 with Z_k;    *)
(* without an escape below maxIter, escapeIter = maxIter.  The orbit has    *)
(* exactly maxIter samples.                                                 *)

\* the orbit is as described from index i on, z being Z_i
RECURSIVE OrbitAsDescribed(_, _)
OrbitAsDescribed(i, z) ==
    IF i >= pixMaxIter THEN refOrbit.escapeIter = pixMaxIter
    ELSE /\ refOrbit.data[i + 1] = z
         /\ IF RGtInt(Mag2(z), BailoutSq)
            THEN /\ refOrbit.escapeIter = i
                 /\ \A j \in (i + 1)..(pixMaxIter - 1) : refOrbit.data[j + 1] = z
            ELSE OrbitAsDescribed(i + 1, MandelStep(z, refPoint))

C22_OrbitAsDescribed ==
    pixStage # "init"
        => /\ Len(refOrbit.data) = pixMaxIter
           /\ OrbitAsDescribed(0, CZero)

\* the reference 1 + i escapes at index 2 of 4: slot 3 repeats Z_2 = 1 + 3i
C22_Witness ==
    /\ pixStage = "orbit"
    /\ refPoint = Cx(RInt(1), RInt(1))
    /\ pixMaxIter = 4
    /\ refOrbit.escapeIter = 2
    /\ refOrbit.data[3] = Cx(RInt(1), RInt(3))
    /\ refOrbit.data[4] = Cx(RInt(1), RInt(3))

-----------------------------------------------------------------------------
(* C23: findBestReference returns the view centre when its escape iteration *)
(* is at least 0.8 * maxIter; otherwise a point with the highest escape     *)
(* iteration among the centre and the grid probes it examined, the probes   *)
(* ending with the first that reaches maxIter.  The reported escapeIter is  *)
(* the escape iteration of the point returned and is never lower than the   *)
(* centre's.                                                                *)

\* grid probe k of the view searched
ProbePoint(k) ==
    Cx(RAdd(fbrInput.centerX, RMul(SearchPoints[k][1], fbrInput.viewWidth)),
       RAdd(fbrInput.centerY, RMul(SearchPoints[k][2], fbrInput.viewHeight)))

ProbeEscape(k) == testEscape(ProbePoint(k), fbrInput.maxIterations)

\* the probes examined: up to the first that reaches maxIterations
ProbesExamined ==
    LET bounded == {k \in DOMAIN SearchPoints : ProbeEscape(k) >= fbrInput.maxIterations}
    IN  IF bounded = {} THEN DOMAIN SearchPoints
        ELSE 1..(CHOOSE k \in bounded : \A j \in bounded : k <= j)

C23_BestReference ==
    fbrOutput # <<>> =>
        LET center    == Cx(fbrInput.centerX, fbrInput.centerY)
            centerEsc == testEscape(center, fbrInput.maxIterations)
            best      == fbrOutput[1]
            point     == Cx(best.x, best.y)
        IN  /\ best.escapeIter = testEscape(point, fbrInput.maxIterations)
            /\ best.escapeIter >= centerEsc
            /\ IF 5 * centerEsc >= 4 * fbrInput.maxIterations
               THEN point = center
               ELSE /\ point \in {center} \cup {ProbePoint(k) : k \in ProbesExamined}
                    /\ \A k \in ProbesExamined : ProbeEscape(k) <= best.escapeIter

\* the centre escapes early and the search ends at a probe that never
\* escapes, after probes that do
C23_Witness ==
    /\ fbrOutput # <<>>
    /\ fbrInput.maxIterations = RefMaxIter
    /\ testEscape(Cx(fbrInput.centerX, fbrInput.centerY), RefMaxIter) = 1
    /\ fbrOutput[1].escapeIter = RefMaxIter
    /\ ProbesExamined # DOMAIN SearchPoints
    /\ Cardinality(ProbesExamined) > 2

-----------------------------------------------------------------------------
(* C24: zoomAtInstant applies the coordinate math of zoomAt at once: from   *)
(* any view and for any screen point p, zoomAtInstant(p, 2) sets the view   *)
(* zoomAt(p, true) animates to and zoomAtInstant(p, 0.5) the view           *)
(* zoomAt(p, false) animates to, in the call itself and without starting a  *)
(* transition.                                                              *)
C24_InstantEqualsAnimatedTarget ==
    [][\A p \in ScreenPoints, zoomIn \in BOOLEAN :
          zoomAtInstant(p, IF zoomIn THEN RInt(2) ELSE Rat(1, 2))
              => /\ currentView' = ZoomAtTarget(p, zoomIn, currentView)
                 /\ UNCHANGED <<pendingFrame, isAnimating>>]_vars

\* the default view after zoomAtInstant(3, 0, 0.5), no transition under way
C24_Witness ==
    /\ opCount = 1
    /\ urlUpdateTimeout = <<currentView>>
    /\ currentView = ZoomAtTarget(<<3, 0>>, FALSE, DefaultView)
    /\ currentView # DefaultView
    /\ pendingFrame = <<>>
    /\ ~isAnimating

-----------------------------------------------------------------------------
(* C25: an animated transition ends settled at its target: when the last    *)
(* frame clears isAnimating, the view equals the target of the transition   *)
(* started last (centre and zoom exact at eased t = 1).                     *)
C25_EndsAtTarget ==
    [][(animIsAnimating /\ ~animIsAnimating')
          => animView' = animPending[1].target]_vars

-----------------------------------------------------------------------------
(* C26: the dragging flag brackets the gesture: whenever no mouse button    *)
(* and no touch is down, the dragging flag of the hook is false.            *)
C26_NoContactNoDrag ==
    (touchCount = 0 /\ ~buttonDown) => ~dragFlag

-----------------------------------------------------------------------------
(* C27: an uncancelled video export renders exactly duration x fps frames:  *)
(* once the recorder of an uncancelled export has been stopped, the number  *)
(* of frames rendered is the totalFrames of the configuration.              *)
C27_RendersTotalFrames ==
    (~cancelledRef /\ recorderState # "recording")
        => framesRendered = vidConfig.totalFrames

-----------------------------------------------------------------------------
(* C28: zoom-at-cursor: the complex point under the screen point p before   *)
(* zoomAt(p, in or out) or zoomAtInstant(p, factor) lies under p in the     *)
(* resulting view (the target of the transition, the new current view).     *)
C28_CursorPointFixed ==
    [][/\ \A p \in ScreenPoints, zoomIn \in BOOLEAN :
              zoomAt(p, zoomIn)
                  => ScreenToComplex(p, pendingFrame'[1].target)
                         = ScreenToComplex(p, currentView)
       /\ \A p \in ScreenPoints, zoomFactor \in ZoomFactors :
              zoomAtInstant(p, zoomFactor)
                  => ScreenToComplex(p, currentView')
                         = ScreenToComplex(p, currentView)]_vars

-----------------------------------------------------------------------------
(* C29: the URL always decodes to the selected set: after any sequence of   *)
(* set changes, fractalSetFromUrlParams of the hash is the selected set.    *)
C29_HashDecodesToSelected ==
    selSet # <<>> => fractalSetFromUrlParams(selHash) = selSet[1]

-----------------------------------------------------------------------------
(* C30: a freshly selected reference is valid for the view it was selected  *)
(* for: after render recomputed the reference of a settled view, the reuse  *)
(* test holds for that view, and the render of the unchanged view again     *)
(* does not recompute it.                                                   *)
C30_FreshReferenceIsReused ==
    /\ frStage = "rendered" => ~NeedNewRefInDoubles(frLastRef, frView)
    /\ frStage = "again" => ~frRecomputed

====
